---------------------------- MODULE Spec2Model ----------------------------
(***************************************************************************)
(* A model of the reference sequence CRDTs of src/crdts.ts (yjsMod, yjs,   *)
(* automerge, sync9) and of the integration fuzzer of src/unnamed/part_000.*)
(*                                                                         *)
(* Indices are the 0-based indices of the TypeScript source: item i of a   *)
(* document is doc.content[i + 1] here.  A document is a record; an item   *)
(* is a record with the union shape `Item` of the source.  A thrown Error  *)
(* is a result record whose err field is not "none"; its doc field is the  *)
(* document as the throw leaves it.                                        *)
(***************************************************************************)
EXTENDS Integers, Sequences, FiniteSets, TLC

\* ------------------------------------------------------------ bounds
\* The most local inserts made in the replica system, all agents together.
MaxItems == 3
\* The same, in the replica system that makes no local delete.
MaxInsItems == 4
\* The most local deletes made in the replica system.
MaxDeletes == 1
\* The most items of a free item set handed to the integration fuzzer.
MaxOps == 4
\* The longest run of interleavingForward and interleavingBackward.
MaxRun == 3
\* The most anchors of a free item set that are not null.
MaxAnchors == 2

\* ------------------------------------------------------------ values
\* `null` as an Id (document root / end of document).
null == [agent |-> "", seq |-> -1]
\* `null` as an item's content (a Sync9 placeholder).
absent == "null"
\* The value findItem2 has when it throws 'Could not find item'.
NotFound == -2

Id(agent, seq) == [agent |-> agent, seq |-> seq]

\* The agents' names in the order of the string comparison `<`.
AgentOrder == <<"A", "B", "C", "D">>
AgentRank(a) == CHOOSE k \in 1..Len(AgentOrder) : AgentOrder[k] = a
\* The comparison the other way round.
AgentLtFlipped(a, b) == AgentRank(a) > AgentRank(b)
\* newItem.id[0] < other.id[0]
AgentLt(a, b) == AgentRank(a) < AgentRank(b)

\* version: agent => last seen seq, no entry for an agent never seen.
newDoc == [content |-> <<>>, version |-> [a \in {} |-> 0], length |-> 0, maxSeq |-> 0]

\* doc.version[agent] ?? -1
VGet(version, agent) == IF agent \in DOMAIN version THEN version[agent] ELSE -1
\* The version entry written as the next seq expected, not the last seen.
VSetNext(version, agent, seq) ==
  [a \in (DOMAIN version) \cup {agent} |-> IF a = agent THEN seq + 1 ELSE version[a]]
\* doc.version[agent] = seq
VSet(version, agent, seq) ==
  [a \in (DOMAIN version) \cup {agent} |-> IF a = agent THEN seq ELSE version[a]]

Ok(doc) == [doc |-> doc, err |-> "none"]
Throw(doc, e) == [doc |-> doc, err |-> e]

\* doc.content[i], for 0 <= i < doc.content.length
At(doc, i) == doc.content[i + 1]
\* doc.content.splice(idx, 1, item): the item takes the place of the one at idx.
SpliceOver(content, idx, item) ==
  SubSeq(content, 1, idx) \o <<item>> \o SubSeq(content, idx + 2, Len(content))
\* doc.content.splice(idx, 0, item)
Splice(content, idx, item) ==
  SubSeq(content, 1, idx) \o <<item>> \o SubSeq(content, idx + 1, Len(content))

idEq2(a, agent, seq) == a # null /\ a.agent = agent /\ a.seq = seq
idEq(a, b) == a = b

\* ------------------------------------------------------------ lookup
Matches(item, needle, atEnd) ==
  \/ ~atEnd /\ idEq2(item.id, needle.agent, needle.seq)
  \/ item.content # absent /\ atEnd /\ idEq2(item.id, needle.agent, needle.seq)

\* doc.content.findIndex(...), NotFound for the throw that follows -1
FindIndex(doc, needle, atEnd) ==
  LET hits == {i \in 0..(Len(doc.content) - 1) : Matches(At(doc, i), needle, atEnd)}
  IN IF hits = {} THEN NotFound ELSE CHOOSE i \in hits : \A j \in hits : i <= j

findItem2(doc, needle, atEnd, idx_hint) ==
  IF needle = null THEN -1
  ELSE IF /\ idx_hint >= 0
          /\ idx_hint < Len(doc.content)
          /\ Matches(At(doc, idx_hint), needle, atEnd)
       THEN idx_hint
       ELSE FindIndex(doc, needle, atEnd)

findItem(doc, needle, idx_hint) == findItem2(doc, needle, FALSE, idx_hint)

\* The loop of findItemAtPos from index i on; NotFound for 'past end of the document'.
RECURSIVE FindAtPosFrom(_, _, _, _)
FindAtPosFrom(doc, pos, stick_end, i) ==
  IF i >= Len(doc.content)
  THEN IF pos = 0 THEN i ELSE NotFound
  ELSE LET item == At(doc, i) IN
       IF stick_end /\ pos = 0 THEN i
       ELSE IF item.isDeleted \/ item.content = absent
            THEN FindAtPosFrom(doc, pos, stick_end, i + 1)
            ELSE IF pos = 0 THEN i
                 ELSE FindAtPosFrom(doc, pos - 1, stick_end, i + 1)

findItemAtPos(doc, pos, stick_end) == FindAtPosFrom(doc, pos, stick_end, 0)

Visible(i) == ~i.isDeleted /\ i.content # absent

\* doc.content.filter(i => !i.isDeleted && i.content != null)
RECURSIVE FilterVisible(_)
FilterVisible(s) ==
  IF s = <<>> THEN <<>>
  ELSE (IF Visible(Head(s)) THEN <<Head(s)>> ELSE <<>>) \o FilterVisible(Tail(s))

getArray(doc) ==
  LET vis == FilterVisible(doc.content)
  IN [k \in 1..Len(vis) |-> vis[k].content]

\* isInVersion with seq > id[1] for seq >= id[1].
isInVersionStrict(id, version) ==
  IF id = null THEN TRUE
  ELSE id.agent \in DOMAIN version /\ version[id.agent] > id.seq

isInVersion(id, version) ==
  IF id = null THEN TRUE
  ELSE id.agent \in DOMAIN version /\ version[id.agent] >= id.seq

\* canInsertNow without the `op.id[1] === 0 ||` of the test of the item before.
canInsertNowNoFirst(op, doc) ==
  /\ ~isInVersion(op.id, doc.version)
  /\ isInVersion(Id(op.id.agent, op.id.seq - 1), doc.version)
  /\ isInVersion(op.originLeft, doc.version)
  /\ isInVersion(op.originRight, doc.version)

\* canInsertNow without the two anchor tests.
canInsertNowNoAnchors(op, doc) ==
  /\ ~isInVersion(op.id, doc.version)
  /\ (op.id.seq = 0 \/ isInVersion(Id(op.id.agent, op.id.seq - 1), doc.version))

canInsertNow(op, doc) ==
  /\ ~isInVersion(op.id, doc.version)
  /\ (op.id.seq = 0 \/ isInVersion(Id(op.id.agent, op.id.seq - 1), doc.version))
  /\ isInVersion(op.originLeft, doc.version)
  /\ isInVersion(op.originRight, doc.version)


\* ------------------------------------------------------------ integrate
\* YjsModScan with the agent comparison of the raw conflict left out: always break.
RECURSIVE YjsModScanNoTieBreak(_, _, _, _, _, _, _, _)
YjsModScanNoTieBreak(doc, newItem, left, right, i, destIdx0, scanning, idx_hint) ==
  LET destIdx == IF ~scanning THEN i ELSE destIdx0 IN
  IF i = Len(doc.content) THEN destIdx
  ELSE IF i = right THEN destIdx
  ELSE
    LET other == At(doc, i)
        oleft == findItem(doc, other.originLeft, idx_hint - 1)
        oright == IF other.originRight = null THEN Len(doc.content)
                  ELSE findItem(doc, other.originRight, idx_hint)
    IN IF oleft = NotFound \/ oright = NotFound THEN NotFound
       ELSE IF oleft < left THEN destIdx
       ELSE IF oleft = left THEN
         IF oright < right
         THEN YjsModScanNoTieBreak(doc, newItem, left, right, i + 1, destIdx, TRUE, idx_hint)
         ELSE IF oright = right
         THEN destIdx
         ELSE YjsModScanNoTieBreak(doc, newItem, left, right, i + 1, destIdx, FALSE, idx_hint)
       ELSE YjsModScanNoTieBreak(doc, newItem, left, right, i + 1, destIdx, scanning, idx_hint)

\* YjsModScan with scanning never set: destIdx follows i past a span that might be skipped.
RECURSIVE YjsModScanNoScanning(_, _, _, _, _, _, _, _)
YjsModScanNoScanning(doc, newItem, left, right, i, destIdx0, scanning, idx_hint) ==
  LET destIdx == IF ~scanning THEN i ELSE destIdx0 IN
  IF i = Len(doc.content) THEN destIdx
  ELSE IF i = right THEN destIdx
  ELSE
    LET other == At(doc, i)
        oleft == findItem(doc, other.originLeft, idx_hint - 1)
        oright == IF other.originRight = null THEN Len(doc.content)
                  ELSE findItem(doc, other.originRight, idx_hint)
    IN IF oleft = NotFound \/ oright = NotFound THEN NotFound
       ELSE IF oleft < left THEN destIdx
       ELSE IF oleft = left THEN
         IF oright < right
         THEN YjsModScanNoScanning(doc, newItem, left, right, i + 1, destIdx, FALSE, idx_hint)
         ELSE IF oright = right
         THEN IF AgentLt(newItem.id.agent, other.id.agent) THEN destIdx
              ELSE YjsModScanNoScanning(doc, newItem, left, right, i + 1, destIdx, FALSE, idx_hint)
         ELSE YjsModScanNoScanning(doc, newItem, left, right, i + 1, destIdx, FALSE, idx_hint)
       ELSE YjsModScanNoScanning(doc, newItem, left, right, i + 1, destIdx, scanning, idx_hint)

\* YjsModScan that breaks at an item with oleft > left instead of skipping it.
RECURSIVE YjsModScanNoSkip(_, _, _, _, _, _, _, _)
YjsModScanNoSkip(doc, newItem, left, right, i, destIdx0, scanning, idx_hint) ==
  LET destIdx == IF ~scanning THEN i ELSE destIdx0 IN
  IF i = Len(doc.content) THEN destIdx
  ELSE IF i = right THEN destIdx
  ELSE
    LET other == At(doc, i)
        oleft == findItem(doc, other.originLeft, idx_hint - 1)
        oright == IF other.originRight = null THEN Len(doc.content)
                  ELSE findItem(doc, other.originRight, idx_hint)
    IN IF oleft = NotFound \/ oright = NotFound THEN NotFound
       ELSE IF oleft < left THEN destIdx
       ELSE IF oleft = left THEN
         IF oright < right
         THEN YjsModScanNoSkip(doc, newItem, left, right, i + 1, destIdx, TRUE, idx_hint)
         ELSE IF oright = right
         THEN IF AgentLt(newItem.id.agent, other.id.agent) THEN destIdx
              ELSE YjsModScanNoSkip(doc, newItem, left, right, i + 1, destIdx, FALSE, idx_hint)
         ELSE YjsModScanNoSkip(doc, newItem, left, right, i + 1, destIdx, FALSE, idx_hint)
       ELSE destIdx

\* The scan loop of integrateYjsMod from index i on: the final destIdx, or
\* NotFound when a findItem of the loop throws.
RECURSIVE YjsModScan(_, _, _, _, _, _, _, _)
YjsModScan(doc, newItem, left, right, i, destIdx0, scanning, idx_hint) ==
  LET destIdx == IF ~scanning THEN i ELSE destIdx0 IN
  IF i = Len(doc.content) THEN destIdx
  ELSE IF i = right THEN destIdx
  ELSE
    LET other == At(doc, i)
        oleft == findItem(doc, other.originLeft, idx_hint - 1)
        oright == IF other.originRight = null THEN Len(doc.content)
                  ELSE findItem(doc, other.originRight, idx_hint)
    IN IF oleft = NotFound \/ oright = NotFound THEN NotFound
       ELSE IF oleft < left THEN destIdx
       ELSE IF oleft = left THEN
         IF oright < right
         THEN YjsModScan(doc, newItem, left, right, i + 1, destIdx, TRUE, idx_hint)
         ELSE IF oright = right
         THEN IF AgentLt(newItem.id.agent, other.id.agent) THEN destIdx
              ELSE YjsModScan(doc, newItem, left, right, i + 1, destIdx, FALSE, idx_hint)
         ELSE YjsModScan(doc, newItem, left, right, i + 1, destIdx, FALSE, idx_hint)
       ELSE YjsModScan(doc, newItem, left, right, i + 1, destIdx, scanning, idx_hint)

\* YjsScan with the agent comparison left out: no item is skipped for its agent.
RECURSIVE YjsScanNoTieBreak(_, _, _, _, _, _, _, _)
YjsScanNoTieBreak(doc, newItem, left, right, i, destIdx0, scanning, idx_hint) ==
  LET destIdx == IF ~scanning THEN i ELSE destIdx0 IN
  IF i = Len(doc.content) THEN destIdx
  ELSE IF i = right THEN destIdx
  ELSE
    LET other == At(doc, i)
        oleft == findItem(doc, other.originLeft, idx_hint - 1)
        oright == IF other.originRight = null THEN Len(doc.content)
                  ELSE findItem(doc, other.originRight, idx_hint)
    IN IF oleft = NotFound \/ oright = NotFound THEN NotFound
       ELSE IF oleft < left THEN destIdx
       ELSE IF oleft = left THEN
         IF oright = right THEN destIdx
         ELSE YjsScanNoTieBreak(doc, newItem, left, right, i + 1, destIdx, TRUE, idx_hint)
       ELSE YjsScanNoTieBreak(doc, newItem, left, right, i + 1, destIdx, scanning, idx_hint)

\* The scan loop of integrateYjs.
RECURSIVE YjsScan(_, _, _, _, _, _, _, _)
YjsScan(doc, newItem, left, right, i, destIdx0, scanning, idx_hint) ==
  LET destIdx == IF ~scanning THEN i ELSE destIdx0 IN
  IF i = Len(doc.content) THEN destIdx
  ELSE IF i = right THEN destIdx
  ELSE
    LET other == At(doc, i)
        oleft == findItem(doc, other.originLeft, idx_hint - 1)
        oright == IF other.originRight = null THEN Len(doc.content)
                  ELSE findItem(doc, other.originRight, idx_hint)
    IN IF oleft = NotFound \/ oright = NotFound THEN NotFound
       ELSE IF oleft < left THEN destIdx
       ELSE IF oleft = left THEN
         IF AgentLt(other.id.agent, newItem.id.agent)
         THEN YjsScan(doc, newItem, left, right, i + 1, destIdx, FALSE, idx_hint)
         ELSE IF oright = right THEN destIdx
         ELSE YjsScan(doc, newItem, left, right, i + 1, destIdx, TRUE, idx_hint)
       ELSE YjsScan(doc, newItem, left, right, i + 1, destIdx, scanning, idx_hint)

\* IntegrateYjsLike with the version written before the seq check.
IntegrateYjsLikeLateCheck(doc, newItem, idx_hint, UseMod) ==
  LET lastSeen == VGet(doc.version, newItem.id.agent) IN
  IF newItem.id.seq # lastSeen + 1
  THEN Throw([doc EXCEPT !.version = VSet(doc.version, newItem.id.agent, newItem.id.seq)],
             "Operations out of order")
  ELSE
    LET doc1 == [doc EXCEPT !.version = VSet(doc.version, newItem.id.agent, newItem.id.seq)]
        left == findItem(doc1, newItem.originLeft, idx_hint - 1)
        right == IF newItem.originRight = null THEN Len(doc1.content)
                 ELSE findItem(doc1, newItem.originRight, idx_hint)
    IN IF left = NotFound THEN Throw(doc1, "Could not find item")
       ELSE IF right = NotFound THEN Throw(doc1, "Could not find item")
       ELSE
         LET destIdx == IF UseMod
                        THEN YjsModScan(doc1, newItem, left, right, left + 1, left + 1, FALSE, idx_hint)
                        ELSE YjsScan(doc1, newItem, left, right, left + 1, left + 1, FALSE, idx_hint)
         IN IF destIdx = NotFound THEN Throw(doc1, "Could not find item")
            ELSE Ok([doc1 EXCEPT
                       !.content = Splice(doc1.content, destIdx, newItem),
                       !.length = IF ~newItem.isDeleted THEN @ + 1 ELSE @])

\* The part integrateYjsMod and integrateYjs share: the seq check, the version
\* update, the two anchor lookups, the scan (UseMod picks the loop), the splice.
IntegrateYjsLike(doc, newItem, idx_hint, UseMod) ==
  LET lastSeen == VGet(doc.version, newItem.id.agent) IN
  IF newItem.id.seq # lastSeen + 1 THEN Throw(doc, "Operations out of order")
  ELSE
    LET doc1 == [doc EXCEPT !.version = VSet(doc.version, newItem.id.agent, newItem.id.seq)]
        left == findItem(doc1, newItem.originLeft, idx_hint - 1)
        right == IF newItem.originRight = null THEN Len(doc1.content)
                 ELSE findItem(doc1, newItem.originRight, idx_hint)
    IN IF left = NotFound THEN Throw(doc1, "Could not find item")
       ELSE IF right = NotFound THEN Throw(doc1, "Could not find item")
       ELSE
         LET destIdx == IF UseMod
                        THEN YjsModScan(doc1, newItem, left, right, left + 1, left + 1, FALSE, idx_hint)
                        ELSE YjsScan(doc1, newItem, left, right, left + 1, left + 1, FALSE, idx_hint)
         IN IF destIdx = NotFound THEN Throw(doc1, "Could not find item")
            ELSE Ok([doc1 EXCEPT
                       !.content = Splice(doc1.content, destIdx, newItem),
                       !.length = IF ~newItem.isDeleted THEN @ + 1 ELSE @])

integrateYjsMod(doc, newItem, idx_hint) == IntegrateYjsLike(doc, newItem, idx_hint, TRUE)

integrateYjs(doc, newItem, idx_hint) == IntegrateYjsLike(doc, newItem, idx_hint, FALSE)

\* The items the loop of integrateYjsMod3 examines, turn after turn until it
\* breaks: for each the index i and the oleft and oright the turn computes.  The
\* loop is that of integrateYjsMod with one more statement,
\* assert(oright !== right || oleft === oleft), which compares oleft with itself
\* and so holds in every turn.
RECURSIVE YjsMod3Examined(_, _, _, _, _, _)
YjsMod3Examined(doc, newItem, left, right, i, idx_hint) ==
  IF i = Len(doc.content) THEN {}
  ELSE IF i = right THEN {}
  ELSE
    LET other == At(doc, i)
        oleft == findItem(doc, other.originLeft, idx_hint - 1)
        oright == IF other.originRight = null THEN Len(doc.content)
                  ELSE findItem(doc, other.originRight, idx_hint)
        here == {[i |-> i, oleft |-> oleft, oright |-> oright]}
    IN IF oleft = NotFound \/ oright = NotFound THEN {}
       ELSE IF ~(oright # right \/ oleft = oleft) THEN {}
       ELSE IF oleft < left THEN here
       ELSE IF oleft = left /\ oright = right /\ AgentLt(newItem.id.agent, other.id.agent)
       THEN here
       ELSE here \cup YjsMod3Examined(doc, newItem, left, right, i + 1, idx_hint)

\* The result of the scan loop of integrateAutomerge: the final destIdx, NotFound
\* when findItem throws, AssertFailed when assert(lostConflict) fails.
AssertFailed == -3
\* AutomergeScan whose shortcut also stops at an item of the same seq.
RECURSIVE AutomergeScanEagerBreak(_, _, _, _, _, _)
AutomergeScanEagerBreak(doc, newItem, parent, destIdx, lostConflict, idx_hint) ==
  IF ~(destIdx < Len(doc.content)) THEN destIdx
  ELSE
    LET o == At(doc, destIdx) IN
    IF newItem.seq >= o.seq THEN destIdx
    ELSE
      LET oparent == findItem(doc, o.originLeft, idx_hint - 1) IN
      IF oparent = NotFound THEN NotFound
      ELSE IF oparent < parent THEN destIdx
      ELSE IF oparent = parent THEN
        IF newItem.seq > o.seq THEN destIdx
        ELSE IF newItem.seq = o.seq
        THEN IF AgentLt(newItem.id.agent, o.id.agent) THEN destIdx
             ELSE AutomergeScanEagerBreak(doc, newItem, parent, destIdx + 1, TRUE, idx_hint)
        ELSE AutomergeScanEagerBreak(doc, newItem, parent, destIdx + 1, TRUE, idx_hint)
      ELSE IF ~lostConflict THEN AssertFailed
           ELSE AutomergeScanEagerBreak(doc, newItem, parent, destIdx + 1, lostConflict, idx_hint)

\* AutomergeScan that never records a lost conflict: lostConflict stays as it was.
RECURSIVE AutomergeScanNoLost(_, _, _, _, _, _)
AutomergeScanNoLost(doc, newItem, parent, destIdx, lostConflict, idx_hint) ==
  IF ~(destIdx < Len(doc.content)) THEN destIdx
  ELSE
    LET o == At(doc, destIdx) IN
    IF newItem.seq > o.seq THEN destIdx
    ELSE
      LET oparent == findItem(doc, o.originLeft, idx_hint - 1) IN
      IF oparent = NotFound THEN NotFound
      ELSE IF oparent < parent THEN destIdx
      ELSE IF oparent = parent THEN
        IF newItem.seq > o.seq THEN destIdx
        ELSE IF newItem.seq = o.seq
        THEN IF AgentLt(newItem.id.agent, o.id.agent) THEN destIdx
             ELSE AutomergeScanNoLost(doc, newItem, parent, destIdx + 1, lostConflict, idx_hint)
        ELSE AutomergeScanNoLost(doc, newItem, parent, destIdx + 1, lostConflict, idx_hint)
      ELSE IF ~lostConflict THEN AssertFailed
           ELSE AutomergeScanNoLost(doc, newItem, parent, destIdx + 1, lostConflict, idx_hint)

\* AutomergeScan with the agent comparison of equal seqs left out: the new item always loses.
RECURSIVE AutomergeScanNoAgent(_, _, _, _, _, _)
AutomergeScanNoAgent(doc, newItem, parent, destIdx, lostConflict, idx_hint) ==
  IF ~(destIdx < Len(doc.content)) THEN destIdx
  ELSE
    LET o == At(doc, destIdx) IN
    IF newItem.seq > o.seq THEN destIdx
    ELSE
      LET oparent == findItem(doc, o.originLeft, idx_hint - 1) IN
      IF oparent = NotFound THEN NotFound
      ELSE IF oparent < parent THEN destIdx
      ELSE IF oparent = parent THEN
        IF newItem.seq > o.seq THEN destIdx
        ELSE IF newItem.seq = o.seq
        THEN AutomergeScanNoAgent(doc, newItem, parent, destIdx + 1, TRUE, idx_hint)
        ELSE AutomergeScanNoAgent(doc, newItem, parent, destIdx + 1, TRUE, idx_hint)
      ELSE IF ~lostConflict THEN AssertFailed
           ELSE AutomergeScanNoAgent(doc, newItem, parent, destIdx + 1, lostConflict, idx_hint)

RECURSIVE AutomergeScan(_, _, _, _, _, _)
AutomergeScan(doc, newItem, parent, destIdx, lostConflict, idx_hint) ==
  IF ~(destIdx < Len(doc.content)) THEN destIdx
  ELSE
    LET o == At(doc, destIdx) IN
    IF newItem.seq > o.seq THEN destIdx
    ELSE
      LET oparent == findItem(doc, o.originLeft, idx_hint - 1) IN
      IF oparent = NotFound THEN NotFound
      ELSE IF oparent < parent THEN destIdx
      ELSE IF oparent = parent THEN
        IF newItem.seq > o.seq THEN destIdx
        ELSE IF newItem.seq = o.seq
        THEN IF AgentLt(newItem.id.agent, o.id.agent) THEN destIdx
             ELSE AutomergeScan(doc, newItem, parent, destIdx + 1, TRUE, idx_hint)
        ELSE AutomergeScan(doc, newItem, parent, destIdx + 1, TRUE, idx_hint)
      ELSE IF ~lostConflict THEN AssertFailed
           ELSE AutomergeScan(doc, newItem, parent, destIdx + 1, lostConflict, idx_hint)

\* The scan loop of integrateAutomerge without its shortcut (the
\* `if (newItem.seq > o.seq) break` at the head of the loop body): every item
\* met goes through the case split on oparent.
RECURSIVE AutomergeScanFull(_, _, _, _, _, _)
AutomergeScanFull(doc, newItem, parent, destIdx, lostConflict, idx_hint) ==
  IF ~(destIdx < Len(doc.content)) THEN destIdx
  ELSE
    LET o == At(doc, destIdx)
        oparent == findItem(doc, o.originLeft, idx_hint - 1) IN
      IF oparent = NotFound THEN NotFound
      ELSE IF oparent < parent THEN destIdx
      ELSE IF oparent = parent THEN
        IF newItem.seq > o.seq THEN destIdx
        ELSE IF newItem.seq = o.seq
        THEN IF AgentLt(newItem.id.agent, o.id.agent) THEN destIdx
             ELSE AutomergeScanFull(doc, newItem, parent, destIdx + 1, TRUE, idx_hint)
        ELSE AutomergeScanFull(doc, newItem, parent, destIdx + 1, TRUE, idx_hint)
      ELSE IF ~lostConflict THEN AssertFailed
           ELSE AutomergeScanFull(doc, newItem, parent, destIdx + 1, lostConflict, idx_hint)

\* integrateAutomerge that leaves maxSeq as it was.
integrateAutomergeKeepMax(doc, newItem, idx_hint) ==
  IF ~(newItem.seq >= 0) THEN Throw(doc, "AssertionError")
  ELSE
  LET lastSeen == VGet(doc.version, newItem.id.agent) IN
  IF newItem.id.seq # lastSeen + 1 THEN Throw(doc, "Operations out of order")
  ELSE
    LET doc1 == [doc EXCEPT !.version = VSet(doc.version, newItem.id.agent, newItem.id.seq)]
        parent == findItem(doc1, newItem.originLeft, idx_hint - 1)
    IN IF parent = NotFound THEN Throw(doc1, "Could not find item")
       ELSE
         LET destIdx == AutomergeScan(doc1, newItem, parent, parent + 1, FALSE, idx_hint)
         IN IF destIdx = NotFound THEN Throw(doc1, "Could not find item")
            ELSE IF destIdx = AssertFailed THEN Throw(doc1, "AssertionError")
            ELSE Ok([doc1 EXCEPT
                       !.maxSeq = @,
                       !.content = Splice(doc1.content, destIdx, newItem),
                       !.length = IF ~newItem.isDeleted THEN @ + 1 ELSE @])

integrateAutomerge(doc, newItem, idx_hint) ==
  IF ~(newItem.seq >= 0) THEN Throw(doc, "AssertionError")
  ELSE
  LET lastSeen == VGet(doc.version, newItem.id.agent) IN
  IF newItem.id.seq # lastSeen + 1 THEN Throw(doc, "Operations out of order")
  ELSE
    LET doc1 == [doc EXCEPT !.version = VSet(doc.version, newItem.id.agent, newItem.id.seq)]
        parent == findItem(doc1, newItem.originLeft, idx_hint - 1)
    IN IF parent = NotFound THEN Throw(doc1, "Could not find item")
       ELSE
         LET destIdx == AutomergeScan(doc1, newItem, parent, parent + 1, FALSE, idx_hint)
         IN IF destIdx = NotFound THEN Throw(doc1, "Could not find item")
            ELSE IF destIdx = AssertFailed THEN Throw(doc1, "AssertionError")
            ELSE Ok([doc1 EXCEPT
                       !.maxSeq = IF newItem.seq > @ THEN newItem.seq ELSE @,
                       !.content = Splice(doc1.content, destIdx, newItem),
                       !.length = IF ~newItem.isDeleted THEN @ + 1 ELSE @])

\* The scan loop of integrateSync9 (the else branch).
\* Sync9Scan with the agent comparison left out: the new item goes after every sibling.
RECURSIVE Sync9ScanNoAgent(_, _, _, _, _)
Sync9ScanNoAgent(doc, newItem, parentIdx, destIdx, idx_hint) ==
  IF ~(destIdx < Len(doc.content)) THEN destIdx
  ELSE
    LET other == At(doc, destIdx)
        oparentIdx == findItem2(doc, other.originLeft, other.insertAfter, idx_hint - 1)
    IN IF oparentIdx = NotFound THEN NotFound
       ELSE IF oparentIdx < parentIdx THEN destIdx
       ELSE IF oparentIdx = parentIdx THEN
         Sync9ScanNoAgent(doc, newItem, parentIdx, destIdx + 1, idx_hint)
       ELSE Sync9ScanNoAgent(doc, newItem, parentIdx, destIdx + 1, idx_hint)

RECURSIVE Sync9Scan(_, _, _, _, _)
Sync9Scan(doc, newItem, parentIdx, destIdx, idx_hint) ==
  IF ~(destIdx < Len(doc.content)) THEN destIdx
  ELSE
    LET other == At(doc, destIdx)
        oparentIdx == findItem2(doc, other.originLeft, other.insertAfter, idx_hint - 1)
    IN IF oparentIdx = NotFound THEN NotFound
       ELSE IF oparentIdx < parentIdx THEN destIdx
       ELSE IF oparentIdx = parentIdx THEN
         IF AgentLt(newItem.id.agent, other.id.agent) THEN destIdx
         ELSE Sync9Scan(doc, newItem, parentIdx, destIdx + 1, idx_hint)
       ELSE Sync9Scan(doc, newItem, parentIdx, destIdx + 1, idx_hint)

\* integrateSync9 whose split inserts a copy of the parent with its content.
integrateSync9KeepContent(doc, newItem, idx_hint) ==
  LET lastSeen == VGet(doc.version, newItem.id.agent) IN
  IF newItem.id.seq # lastSeen + 1 THEN Throw(doc, "Operations out of order")
  ELSE
    LET doc1 == [doc EXCEPT !.version = VSet(doc.version, newItem.id.agent, newItem.id.seq)]
        parentIdx == findItem2(doc1, newItem.originLeft, newItem.insertAfter, idx_hint - 1)
    IN IF parentIdx = NotFound THEN Throw(doc1, "Could not find item")
       ELSE
         LET split == /\ parentIdx >= 0
                      /\ newItem.originLeft # null
                      /\ ~newItem.insertAfter
                      /\ At(doc1, parentIdx).content # absent
             doc2 == IF split
                     THEN [doc1 EXCEPT !.content =
                             Splice(doc1.content, parentIdx,
                                    At(doc1, parentIdx))]
                     ELSE doc1
             destIdx == IF split THEN parentIdx + 1
                        ELSE Sync9Scan(doc1, newItem, parentIdx, parentIdx + 1, idx_hint)
         IN IF destIdx = NotFound THEN Throw(doc1, "Could not find item")
            ELSE Ok([doc2 EXCEPT
                       !.content = Splice(doc2.content, destIdx, newItem),
                       !.length = IF ~newItem.isDeleted /\ newItem.content # absent
                                  THEN @ + 1 ELSE @])

integrateSync9(doc, newItem, idx_hint) ==
  LET lastSeen == VGet(doc.version, newItem.id.agent) IN
  IF newItem.id.seq # lastSeen + 1 THEN Throw(doc, "Operations out of order")
  ELSE
    LET doc1 == [doc EXCEPT !.version = VSet(doc.version, newItem.id.agent, newItem.id.seq)]
        parentIdx == findItem2(doc1, newItem.originLeft, newItem.insertAfter, idx_hint - 1)
    IN IF parentIdx = NotFound THEN Throw(doc1, "Could not find item")
       ELSE
         LET split == /\ parentIdx >= 0
                      /\ newItem.originLeft # null
                      /\ ~newItem.insertAfter
                      /\ At(doc1, parentIdx).content # absent
             doc2 == IF split
                     THEN [doc1 EXCEPT !.content =
                             Splice(doc1.content, parentIdx,
                                    [At(doc1, parentIdx) EXCEPT !.content = absent])]
                     ELSE doc1
             destIdx == IF split THEN parentIdx + 1
                        ELSE Sync9Scan(doc1, newItem, parentIdx, parentIdx + 1, idx_hint)
         IN IF destIdx = NotFound THEN Throw(doc1, "Could not find item")
            ELSE Ok([doc2 EXCEPT
                       !.content = Splice(doc2.content, destIdx, newItem),
                       !.length = IF ~newItem.isDeleted /\ newItem.content # absent
                                  THEN @ + 1 ELSE @])

\* The four values of `Algorithm`.
Algorithms == {"yjsMod", "yjs", "automerge", "sync9"}

\* algorithm.integrate(doc, newItem, idx_hint)
integrate(algorithm, doc, newItem, idx_hint) ==
  CASE algorithm = "yjsMod" -> integrateYjsMod(doc, newItem, idx_hint)
    [] algorithm = "yjs" -> integrateYjs(doc, newItem, idx_hint)
    [] algorithm = "automerge" -> integrateAutomerge(doc, newItem, idx_hint)
    [] algorithm = "sync9" -> integrateSync9(doc, newItem, idx_hint)

\* ------------------------------------------------------------ local operations
\* doc.content[i]?.id ?? null
IdAt(doc, i) == IF i >= 0 /\ i < Len(doc.content) THEN At(doc, i).id ELSE null

localInsert(algorithm, doc, agent, pos, content) ==
  LET i == findItemAtPos(doc, pos, FALSE) IN
  IF i = NotFound THEN Throw(doc, "past end of the document")
  ELSE integrate(algorithm, doc,
                 [content |-> content,
                  id |-> Id(agent, VGet(doc.version, agent) + 1),
                  isDeleted |-> FALSE,
                  originLeft |-> IdAt(doc, i - 1),
                  originRight |-> IdAt(doc, i),
                  insertAfter |-> TRUE,
                  seq |-> doc.maxSeq + 1],
                 i)

\* The for (;; i++) loop of localInsertSync9: the i, originLeft and insertAfter
\* it ends with.
RECURSIVE Sync9Descend(_, _, _, _, _)
Sync9Descend(doc, i, parentIdBase, originLeft, insertAfter) ==
  IF i >= Len(doc.content) \/ ~idEq(At(doc, i).originLeft, parentIdBase)
  THEN [i |-> i, originLeft |-> originLeft, insertAfter |-> insertAfter]
  ELSE LET nextItem == At(doc, i) IN
       IF nextItem.content # absent
       THEN [i |-> i, originLeft |-> nextItem.id, insertAfter |-> FALSE]
       ELSE Sync9Descend(doc, i + 1, nextItem.id, nextItem.id, FALSE)

localInsertSync9(doc, agent, pos, content) ==
  LET i0 == findItemAtPos(doc, pos, TRUE) IN
  IF i0 = NotFound THEN Throw(doc, "past end of the document")
  ELSE
    LET parentIdBase == IdAt(doc, i0 - 1)
        at == Sync9Descend(doc, i0, parentIdBase, parentIdBase, TRUE)
    IN integrateSync9(doc,
                      [content |-> content,
                       id |-> Id(agent, VGet(doc.version, agent) + 1),
                       isDeleted |-> FALSE,
                       originLeft |-> at.originLeft,
                       insertAfter |-> at.insertAfter,
                       originRight |-> null,
                       seq |-> 0],
                      at.i)

\* algorithm.localInsert(doc, agent, pos, content)
LocalInsertOf(algorithm, doc, agent, pos, content) ==
  IF algorithm = "sync9" THEN localInsertSync9(doc, agent, pos, content)
  ELSE localInsert(algorithm, doc, agent, pos, content)

\* localDelete on the document it is given.  The item it marks is an object
\* other documents may hold too: see LocalDelete.
localDelete(doc, agent, pos) ==
  LET i == findItemAtPos(doc, pos, FALSE) IN
  IF i = NotFound THEN Throw(doc, "past end of the document")
  ELSE IF i >= Len(doc.content) THEN Throw(doc, "TypeError")
  ELSE IF ~At(doc, i).isDeleted
       THEN Ok([doc EXCEPT !.content[i + 1].isDeleted = TRUE, !.length = @ - 1])
       ELSE Ok(doc)

\* ------------------------------------------------------------ merge
\* Missing with every op handed over as a copy that is not deleted.
RECURSIVE MissingUndeleted(_, _)
MissingUndeleted(content, version) ==
  IF content = <<>> THEN <<>>
  ELSE (IF Head(content).content # absent /\ ~isInVersion(Head(content).id, version)
        THEN <<[Head(content) EXCEPT !.isDeleted = FALSE]>> ELSE <<>>)
       \o MissingUndeleted(Tail(content), version)

\* src.content.filter(op => op.content != null && !isInVersion(op.id, dest.version))
RECURSIVE Missing(_, _)
Missing(content, version) ==
  IF content = <<>> THEN <<>>
  ELSE (IF Head(content).content # absent /\ ~isInVersion(Head(content).id, version)
        THEN <<Head(content)>> ELSE <<>>) \o Missing(Tail(content), version)

\* One pass of the for loop of mergeInto from index i on.  taken[i + 1] stands
\* for missing[i] == null.
RECURSIVE MergePass(_, _, _, _, _, _)

\* The rest of a pass once algorithm.integrate(dest, op) has returned r for
\* missing[i]: the throw goes up, else missing[i] = null and the counters move.
MergeStep(algorithm, missing, taken, i, mergedOnThisPass, r) ==
  IF r.err # "none"
  THEN [doc |-> r.doc, err |-> r.err, taken |-> taken, merged |-> mergedOnThisPass]
  ELSE MergePass(algorithm, r.doc, missing, [taken EXCEPT ![i + 1] = TRUE],
                 i + 1, mergedOnThisPass + 1)

\* MergePass without the canInsertNow test: every op still missing is integrated
\* in the order of src.content.
MergePassNoReady(algorithm, dest, missing, taken, i, mergedOnThisPass) ==
  IF ~(i < Len(missing))
  THEN [doc |-> dest, err |-> "none", taken |-> taken, merged |-> mergedOnThisPass]
  ELSE IF taken[i + 1]
       THEN MergePass(algorithm, dest, missing, taken, i + 1, mergedOnThisPass)
       ELSE MergeStep(algorithm, missing, taken, i, mergedOnThisPass,
                      integrate(algorithm, dest, missing[i + 1], -1))

MergePass(algorithm, dest, missing, taken, i, mergedOnThisPass) ==
  IF ~(i < Len(missing))
  THEN [doc |-> dest, err |-> "none", taken |-> taken, merged |-> mergedOnThisPass]
  ELSE IF taken[i + 1] \/ ~canInsertNow(missing[i + 1], dest)
       THEN MergePass(algorithm, dest, missing, taken, i + 1, mergedOnThisPass)
       ELSE MergeStep(algorithm, missing, taken, i, mergedOnThisPass,
                      integrate(algorithm, dest, missing[i + 1], -1))

\* The while (remaining > 0) loop of mergeInto.
RECURSIVE MergeLoop(_, _, _, _, _)

\* AfterPass with an `if` for the `while`: mergeInto returns after one pass.
AfterPassOnce(algorithm, missing, remaining, p) ==
  IF p.err # "none" THEN Throw(p.doc, p.err)
  ELSE IF p.merged = 0 THEN Throw(p.doc, "AssertionError")
  ELSE Ok(p.doc)

\* The end of one turn of the while loop, p the outcome of its pass:
\* assert(mergedOnThisPass), then the next turn.
AfterPass(algorithm, missing, remaining, p) ==
  IF p.err # "none" THEN Throw(p.doc, p.err)
  ELSE IF p.merged = 0 THEN Throw(p.doc, "AssertionError")
  ELSE MergeLoop(algorithm, p.doc, missing, p.taken, remaining - p.merged)

MergeLoop(algorithm, dest, missing, taken, remaining) ==
  IF ~(remaining > 0) THEN Ok(dest)
  ELSE AfterPass(algorithm, missing, remaining,
                 MergePass(algorithm, dest, missing, taken, 0, 0))

mergeInto(algorithm, dest, src) ==
  LET missing == Missing(src.content, dest.version)
  IN MergeLoop(algorithm, dest, missing, [k \in 1..Len(missing) |-> FALSE], Len(missing))

\* ------------------------------------------------------------ the replica system
\* alg      the Algorithm every call of the run uses
\* docs     the documents, one per agent (fuzzMultidoc: docs[i].agent = agents[i])
\* err      the message of the Error the last operation threw, "none" if none;
\*          an uncaught Error ends the run
\* scenario "replicas" for the replica system, else the test that calls the
\*          integration fuzzer
\* ops, expected   the arguments of integrateFuzzOnce
\* fdoc     the document of integrateFuzzOnce
\* pc       "run" until integrateFuzzOnce has passed its final assert, then "done"
VARIABLES alg, docs, err, ops, fdoc, expected, scenario, pc

vars == <<alg, docs, err, ops, fdoc, expected, scenario, pc>>
fuzzVars == <<ops, fdoc, expected, scenario, pc>>

\* const agents = ['A', 'B', 'C']
Replicas == {"A", "B", "C"}

\* The payload a local insert is given: one per item, as fuzzMultidoc's ++nextItem.
ContentOf(agent, seq) == agent \o ToString(seq)

RECURSIVE SumOver(_, _)
SumOver(f, S) ==
  IF S = {} THEN 0
  ELSE LET x == CHOOSE y \in S : TRUE IN f[x] + SumOver(f, S \ {x})

\* The number of local inserts made so far.
TotalInserts == SumOver([a \in Replicas |-> VGet(docs[a].version, a) + 1], Replicas)

\* The ids of the items marked deleted in some document.
DeletedIds ==
  UNION {{docs[d].content[k].id : k \in {j \in DOMAIN docs[d].content :
              docs[d].content[j].isDeleted /\ docs[d].content[j].content # absent}}
         : d \in Replicas}

Init ==
  /\ alg \in Algorithms
  /\ docs = [d \in Replicas |-> newDoc]
  /\ err = "none"
  /\ ops = <<>>
  /\ fdoc = newDoc
  /\ expected = <<>>
  /\ scenario = "replicas"
  /\ pc = "run"

\* alg.localInsert(doc, doc.agent, pos, content) on the document of agent d
LocalInsert(d, pos, max) ==
  /\ scenario = "replicas"
  /\ err = "none"
  /\ TotalInserts < max
  /\ \E r \in {LocalInsertOf(alg, docs[d], d, pos,
                               ContentOf(d, VGet(docs[d].version, d) + 1))} :
        /\ docs' = [docs EXCEPT ![d] = r.doc]
        /\ err' = r.err
  /\ UNCHANGED <<alg, fuzzVars>>

\* The item object localDelete marks is the one object every document that
\* merged it holds (mergeInto integrates src's objects, it does not copy them):
\* the content-bearing item with this id is marked in every document.
MarkShared(doc, id) ==
  [doc EXCEPT !.content =
     [k \in DOMAIN doc.content |->
        IF doc.content[k].id = id /\ doc.content[k].content # absent
        THEN [doc.content[k] EXCEPT !.isDeleted = TRUE]
        ELSE doc.content[k]]]

\* localDelete(doc, agent, pos) on the document of agent d
LocalDelete(d, pos) ==
  /\ scenario = "replicas"
  /\ err = "none"
  /\ Cardinality(DeletedIds) < MaxDeletes
  /\ \E r \in {localDelete(docs[d], d, pos)}, i \in {findItemAtPos(docs[d], pos, FALSE)} :
        /\ docs' = [e \in Replicas |->
                      IF e = d THEN r.doc
                      ELSE IF r.err = "none" THEN MarkShared(docs[e], At(docs[d], i).id)
                      ELSE docs[e]]
        /\ err' = r.err
  /\ UNCHANGED <<alg, fuzzVars>>

\* MergeInto that moves the items: src loses the items dest takes from it.
MergeIntoMoving(dest, src) ==
  /\ scenario = "replicas"
  /\ err = "none"
  /\ dest # src
  /\ \E r \in {mergeInto(alg, docs[dest], docs[src])} :
        /\ docs' = [docs EXCEPT
                      ![dest] = r.doc,
                      ![src] = [@ EXCEPT !.content =
                                  SelectSeq(@, LAMBDA op : op.content = absent
                                                  \/ isInVersion(op.id, docs[dest].version))]]
        /\ err' = r.err
  /\ UNCHANGED <<alg, fuzzVars>>

\* mergeInto(alg, docs[dest], docs[src])
MergeInto(dest, src) ==
  /\ scenario = "replicas"
  /\ err = "none"
  /\ dest # src
  /\ \E r \in {mergeInto(alg, docs[dest], docs[src])} :
        /\ docs' = [docs EXCEPT ![dest] = r.doc]
        /\ err' = r.err
  /\ UNCHANGED <<alg, fuzzVars>>

Next ==
  \/ \E d \in Replicas : \E pos \in 0..docs[d].length : LocalInsert(d, pos, MaxItems)
  \/ \E d \in Replicas : \E pos \in 0..(docs[d].length - 1) : LocalDelete(d, pos)
  \/ \E dest \in Replicas, src \in Replicas : MergeInto(dest, src)

Spec == Init /\ [][Next]_vars

\* The replica system of fuzzMultidoc: local inserts and merges, no delete.
NextIns ==
  \/ \E d \in Replicas : \E pos \in 0..docs[d].length : LocalInsert(d, pos, MaxInsItems)
  \/ \E dest \in Replicas, src \in Replicas : MergeInto(dest, src)

SpecIns == Init /\ [][NextIns]_vars

\* The same under one algorithm.
InitYjsMod == Init /\ alg = "yjsMod"
InitYjs == Init /\ alg = "yjs"
InitAutomerge == Init /\ alg = "automerge"
InitSync9 == Init /\ alg = "sync9"

SpecYjsMod == InitYjsMod /\ [][NextIns]_vars
SpecYjs == InitYjs /\ [][NextIns]_vars
SpecAutomerge == InitAutomerge /\ [][NextIns]_vars
SpecSync9 == InitSync9 /\ [][NextIns]_vars

\* ------------------------------------------------------------ the integration fuzzer
\* makeItem(content, idOrAgent, originLeft, originRight, seq)
makeItem(content, id, originLeft, originRight, seq) ==
  [content |-> content, id |-> id, isDeleted |-> FALSE,
   originLeft |-> originLeft, originRight |-> originRight,
   insertAfter |-> TRUE, seq |-> seq]

concurrentAvsB ==
  << makeItem("a", Id("A", 0), null, null, 0),
     makeItem("b", Id("B", 0), null, null, 0) >>

\* The item k of a run typed left to right by an agent (content c): anchored
\* right of the item before it, the first at the root.
ForwardItem(c, agent, k) ==
  makeItem(c, Id(agent, k), IF k = 0 THEN null ELSE Id(agent, k - 1), null, k)

\* The item k of a run typed right to left: anchored left of the item before it.
BackwardItem(c, agent, k) ==
  makeItem(c, Id(agent, k), null, IF k = 0 THEN null ELSE Id(agent, k - 1), k)

\* The ops of interleavingForward, for runs of n items (the test has n = 3).
interleavingForward(n) ==
  [k \in 1..(2 * n) |-> IF k <= n THEN ForwardItem("a", "A", k - 1)
                        ELSE ForwardItem("b", "B", k - n - 1)]

\* The ops of interleavingBackward, for runs of n items (the test has n = 3).
interleavingBackward(n) ==
  [k \in 1..(2 * n) |-> IF k <= n THEN BackwardItem("a", "A", k - 1)
                        ELSE BackwardItem("b", "B", k - n - 1)]

\* n times "a", then n times "b"
RunsExpected(n) == [k \in 1..(2 * n) |-> IF k <= n THEN "a" ELSE "b"]

withTails ==
  << makeItem("a", Id("A", 0), null, null, 0),
     makeItem("a0", Id("A", 1), null, Id("A", 0), 1),
     makeItem("a1", Id("A", 2), Id("A", 0), null, 2),
     makeItem("b", Id("B", 0), null, null, 0),
     makeItem("b0", Id("B", 1), null, Id("B", 0), 1),
     makeItem("b1", Id("B", 2), Id("B", 0), null, 2) >>

localVsConcurrent ==
  << makeItem("a", Id("A", 0), null, null, 0),
     makeItem("b", Id("B", 0), null, null, 0),
     makeItem("c", Id("C", 0), null, null, 0),
     makeItem("d", Id("D", 0), Id("A", 0), Id("C", 0), 1) >>

Tests == {"concurrentAvsB", "interleavingForward", "interleavingBackward",
          "withTails", "localVsConcurrent"}

\* The ops a test hands to integrateFuzz (n the length of the runs).
OpsOf(test, n) ==
  CASE test = "concurrentAvsB" -> concurrentAvsB
    [] test = "interleavingForward" -> interleavingForward(n)
    [] test = "interleavingBackward" -> interleavingBackward(n)
    [] test = "withTails" -> withTails
    [] test = "localVsConcurrent" -> localVsConcurrent

\* The expectedResult a test hands to integrateFuzz.
ExpectedOf(test, n) ==
  CASE test = "concurrentAvsB" -> <<"a", "b">>
    [] test = "interleavingForward" -> RunsExpected(n)
    [] test = "interleavingBackward" -> RunsExpected(n)
    [] test = "withTails" -> <<"a0", "a", "a1", "b0", "b", "b1">>
    [] test = "localVsConcurrent" -> <<"a", "d", "b", "c">>

\* The candidates of integrateFuzzOnce: the indices of the ops that can be
\* inserted now.
Candidates(doc, opList) == {k \in DOMAIN opList : canInsertNow(opList[k], doc)}

\* numIntegrated: the ops integrated so far.
NumIntegrated == Cardinality({k \in DOMAIN ops : isInVersion(ops[k].id, fdoc.version)})

\* integrateFuzzOnce taking the first candidate at every step: the document it
\* ends with (the ops left when none is a candidate stay out).
RECURSIVE FirstRun(_, _, _, _)
FirstRun(algorithm, doc, opList, n) ==
  LET cand == Candidates(doc, opList) IN
  IF n = 0 \/ cand = {} THEN doc
  ELSE LET k == CHOOSE i \in cand : \A j \in cand : i <= j
           r == integrate(algorithm, doc, opList[k], -1)
       IN IF r.err # "none" THEN r.doc
          ELSE FirstRun(algorithm, r.doc, opList, n - 1)

\* integrateFuzz(ops, expectedResult) as the tests call it.
InitTests ==
  /\ docs = [d \in Replicas |-> newDoc]
  /\ err = "none"
  /\ pc = "run"
  /\ fdoc = newDoc
  /\ scenario \in Tests
  /\ alg \in Algorithms
  /\ \E n \in 1..MaxRun :
       /\ ops = OpsOf(scenario, n)
       /\ expected = ExpectedOf(scenario, n)

\* One turn of the loop of integrateFuzzOnce: the candidates, the assert that
\* there is one, integrate(doc, op) for any one of them.
FuzzStep ==
  /\ scenario # "replicas"
  /\ err = "none"
  /\ pc = "run"
  /\ NumIntegrated < Len(ops)
  /\ IF Candidates(fdoc, ops) = {}
     THEN fdoc' = fdoc /\ err' = "AssertionError"
     ELSE \E k \in Candidates(fdoc, ops) :
            \E r \in {integrate(alg, fdoc, ops[k], -1)} :
              fdoc' = r.doc /\ err' = r.err
  /\ UNCHANGED <<alg, docs, ops, expected, scenario, pc>>

\* assert.deepStrictEqual(getArray(doc), expectedResult), after the loop.
FuzzCheck ==
  /\ scenario # "replicas"
  /\ err = "none"
  /\ pc = "run"
  /\ NumIntegrated = Len(ops)
  /\ IF getArray(fdoc) = expected
     THEN pc' = "done" /\ err' = err
     ELSE pc' = pc /\ err' = "AssertionError"
  /\ UNCHANGED <<alg, docs, ops, fdoc, expected, scenario>>

NextFuzz == FuzzStep \/ FuzzCheck

SpecTests == InitTests /\ [][NextFuzz]_vars

\* A free item set: ids that are unique and without gaps per agent, every anchor
\* null or the id of an item of the set, at most MaxAnchors anchors not null.
FreeAgents == {"A", "B", "C"}

FreeCounts ==
  {c \in [FreeAgents -> 0..MaxOps] :
     SumOver(c, FreeAgents) >= 1 /\ SumOver(c, FreeAgents) <= MaxOps}

IdsOf(c) == UNION {{Id(a, n) : n \in 0..(c[a] - 1)} : a \in FreeAgents}

IdLt(x, y) == AgentLt(x.agent, y.agent) \/ (x.agent = y.agent /\ x.seq < y.seq)

\* The ids of a set as a list, by agent and seq.
RECURSIVE IdList(_)
IdList(ids) ==
  IF ids = {} THEN <<>>
  ELSE LET m == CHOOSE x \in ids : \A y \in ids \ {x} : IdLt(x, y)
       IN <<m>> \o IdList(ids \ {m})

\* integrateFuzz on a free item set, with the result of its first order as
\* expectedResult.
InitFree ==
  /\ docs = [d \in Replicas |-> newDoc]
  /\ err = "none"
  /\ pc = "run"
  /\ fdoc = newDoc
  /\ scenario = "free"
  /\ alg \in {"yjsMod", "yjs"}
  /\ \E c \in FreeCounts :
       LET list == IdList(IdsOf(c))
           slots == (DOMAIN list) \X {"originLeft", "originRight"}
       IN \E S \in {T \in SUBSET slots : Cardinality(T) <= MaxAnchors} :
            \E f \in [S -> IdsOf(c)] :
              ops = [k \in DOMAIN list |->
                       makeItem(ContentOf(list[k].agent, list[k].seq), list[k],
                                IF <<k, "originLeft">> \in S
                                THEN f[<<k, "originLeft">>] ELSE null,
                                IF <<k, "originRight">> \in S
                                THEN f[<<k, "originRight">>] ELSE null,
                                0)]
  /\ expected = getArray(FirstRun(alg, newDoc, ops, Len(ops)))

SpecFree == InitFree /\ [][NextFuzz]_vars

\* ------------------------------------------------------------ the fuzzer on the items of a run
\* The content-bearing items the documents hold.
AllItems ==
  UNION {{docs[d].content[k] : k \in {j \in DOMAIN docs[d].content :
                                        docs[d].content[j].content # absent}}
         : d \in Replicas}

\* The item of a set that has this id.
ItemOf(items, id) == CHOOSE i \in items : i.id = id

\* integrateFuzz on the items the replicas have made so far, in a fresh run, with
\* the result of their first order as expectedResult.
StartFuzz ==
  /\ scenario = "replicas"
  /\ err = "none"
  /\ AllItems # {}
  /\ LET list == IdList({i.id : i \in AllItems})
         opList == [k \in DOMAIN list |-> ItemOf(AllItems, list[k])]
     IN /\ ops' = opList
        /\ expected' = getArray(FirstRun(alg, newDoc, opList, Len(opList)))
  /\ scenario' = "generated"
  /\ docs' = [d \in Replicas |-> newDoc]
  /\ fdoc' = newDoc
  /\ UNCHANGED <<alg, err, pc>>

NextGen ==
  \/ NextIns
  \/ StartFuzz
  \/ NextFuzz

\* The fuzzer on free item sets and on the item sets of the runs of the replica
\* system, under one algorithm.
InitConfluenceYjsMod == (Init \/ InitFree) /\ alg = "yjsMod"
InitConfluenceYjs == (Init \/ InitFree) /\ alg = "yjs"

SpecConfluenceYjsMod == InitConfluenceYjsMod /\ [][NextGen]_vars
SpecConfluenceYjs == InitConfluenceYjs /\ [][NextGen]_vars

\* ------------------------------------------------------------ concurrent root items
\* The agents of a set in the order of the string comparison `<`.
RECURSIVE AgentsSorted(_, _)
AgentsSorted(S, k) ==
  IF k > Len(AgentOrder) THEN <<>>
  ELSE (IF AgentOrder[k] \in S THEN <<AgentOrder[k]>> ELSE <<>>) \o AgentsSorted(S, k + 1)

\* Every order of listing the elements of a set.
RECURSIVE Orders(_)
Orders(S) ==
  IF S = {} THEN {<<>>}
  ELSE UNION {{<<x>> \o t : t \in Orders(S \ {x})} : x \in S}

\* concurrentAvsB for any set of two or more agents: one item per agent, with
\* seq 0 in its id, anchored at the root and at the end, all with the same
\* Automerge seq; integrateFuzz is handed them in any order.
InitRoots ==
  /\ docs = [d \in Replicas |-> newDoc]
  /\ err = "none"
  /\ pc = "run"
  /\ fdoc = newDoc
  /\ scenario = "concurrentRoots"
  /\ alg \in Algorithms
  /\ \E S \in SUBSET {AgentOrder[k] : k \in DOMAIN AgentOrder} :
       /\ Cardinality(S) >= 2
       /\ \E order \in Orders(S), seq \in 0..1 :
            ops = [k \in DOMAIN order |->
                     makeItem(ContentOf(order[k], 0), Id(order[k], 0), null, null, seq)]
       /\ expected = [k \in 1..Cardinality(S) |-> ContentOf(AgentsSorted(S, 1)[k], 0)]

SpecRoots == InitRoots /\ [][NextFuzz]_vars

\* The replica system and the fuzzer on the items of its runs, under Automerge.
SpecGenAutomerge == InitAutomerge /\ [][NextGen]_vars

\* ------------------------------------------------------------ the reference implementation of the test file
\* The test file runs an implementation of its own, with one algorithm: items
\* have no seq and no insertAfter, documents no length and no maxSeq.
MaxRefItems == 4

newDocRef == [content |-> <<>>, version |-> [a \in {} |-> 0]]

\* makeItem(content, idOrAgent, originLeft, originRight)
makeItemRef(content, id, originLeft, originRight) ==
  [content |-> content, id |-> id, originLeft |-> originLeft,
   originRight |-> originRight, isDeleted |-> FALSE]

\* findItem(doc, needle), NotFound for the throw
findItemRef(doc, needle) ==
  IF needle = null THEN -1
  ELSE LET hits == {i \in 0..(Len(doc.content) - 1) : idEq(At(doc, i).id, needle)}
       IN IF hits = {} THEN NotFound ELSE CHOOSE i \in hits : \A j \in hits : i <= j

\* The scan ends in throw Error('Unexpected conflict').
UnexpectedConflict == -4

\* The for (let i = destIdx; ; i++) loop of integrate from index i on, destIdx0
\* and conflictStart as the turns before left them: the destIdx it ends with.
RECURSIVE RefScan(_, _, _, _, _, _, _)
RefScan(doc, newItem, left, right, i, destIdx0, conflictStart) ==
  LET destIdx == IF conflictStart = -1 THEN i ELSE destIdx0 IN
  IF i = Len(doc.content) THEN destIdx
  ELSE IF i = right THEN destIdx
  ELSE
    LET o == At(doc, i)
        oleft == findItemRef(doc, o.originLeft)
        oright == IF o.originRight = null THEN Len(doc.content)
                  ELSE findItemRef(doc, o.originRight)
    IN IF oleft = NotFound \/ oright = NotFound THEN NotFound
       ELSE IF oleft < left THEN
         IF conflictStart >= 0 THEN UnexpectedConflict ELSE destIdx
       ELSE IF oleft = left THEN
         IF oright < right
         THEN RefScan(doc, newItem, left, right, i + 1, destIdx, i)
         ELSE IF oright = right
         THEN IF AgentLt(newItem.id.agent, o.id.agent) THEN destIdx
              ELSE RefScan(doc, newItem, left, right, i + 1, destIdx, -1)
         ELSE RefScan(doc, newItem, left, right, i + 1, destIdx, -1)
       ELSE RefScan(doc, newItem, left, right, i + 1, destIdx, conflictStart)

\* integrate(doc, newItem)
integrateRef(doc, newItem) ==
  LET lastSeen == VGet(doc.version, newItem.id.agent) IN
  IF newItem.id.seq # lastSeen + 1 THEN Throw(doc, "Operations out of order")
  ELSE
    LET doc1 == [doc EXCEPT !.version = VSet(doc.version, newItem.id.agent, newItem.id.seq)]
        left == findItemRef(doc1, newItem.originLeft)
        right == IF newItem.originRight = null THEN Len(doc1.content)
                 ELSE findItemRef(doc1, newItem.originRight)
    IN IF left = NotFound \/ right = NotFound THEN Throw(doc1, "Could not find item")
       ELSE
         LET destIdx == RefScan(doc1, newItem, left, right, left + 1, left + 1, -1)
         IN IF destIdx = NotFound THEN Throw(doc1, "Could not find item")
            ELSE IF destIdx = UnexpectedConflict THEN Throw(doc1, "Unexpected conflict")
            ELSE Ok([doc1 EXCEPT !.content = Splice(doc1.content, destIdx, newItem)])

\* localInsert(doc, agent, pos, content)
localInsertRef(doc, agent, pos, content) ==
  integrateRef(doc, makeItemRef(content, Id(agent, VGet(doc.version, agent) + 1),
                                IdAt(doc, pos - 1), IdAt(doc, pos)))

\* src.content.filter(op => !isInVersion(op.id, dest.version))
RECURSIVE MissingRef(_, _)
MissingRef(content, version) ==
  IF content = <<>> THEN <<>>
  ELSE (IF ~isInVersion(Head(content).id, version) THEN <<Head(content)>> ELSE <<>>)
         \o MissingRef(Tail(content), version)

\* One pass of the for loop of mergeInto from index i on.  taken[i + 1] stands
\* for missing[i] == null.
RECURSIVE MergePassRef(_, _, _, _, _)

MergeStepRef(missing, taken, i, mergedOnThisPass, r) ==
  IF r.err # "none"
  THEN [doc |-> r.doc, err |-> r.err, taken |-> taken, merged |-> mergedOnThisPass]
  ELSE MergePassRef(r.doc, missing, [taken EXCEPT ![i + 1] = TRUE], i + 1, mergedOnThisPass + 1)

MergePassRef(dest, missing, taken, i, mergedOnThisPass) ==
  IF ~(i < Len(missing))
  THEN [doc |-> dest, err |-> "none", taken |-> taken, merged |-> mergedOnThisPass]
  ELSE IF taken[i + 1] \/ ~canInsertNow(missing[i + 1], dest)
       THEN MergePassRef(dest, missing, taken, i + 1, mergedOnThisPass)
       ELSE MergeStepRef(missing, taken, i, mergedOnThisPass,
                         integrateRef(dest, missing[i + 1]))

\* The while (remaining > 0) loop of mergeInto.
RECURSIVE MergeLoopRef(_, _, _, _)

AfterPassRef(missing, remaining, p) ==
  IF p.err # "none" THEN Throw(p.doc, p.err)
  ELSE IF p.merged = 0 THEN Throw(p.doc, "AssertionError")
  ELSE MergeLoopRef(p.doc, missing, p.taken, remaining - p.merged)

MergeLoopRef(dest, missing, taken, remaining) ==
  IF ~(remaining > 0) THEN Ok(dest)
  ELSE AfterPassRef(missing, remaining, MergePassRef(dest, missing, taken, 0, 0))

\* mergeInto(dest, src)
mergeIntoRef(dest, src) ==
  LET missing == MissingRef(src.content, dest.version)
  IN MergeLoopRef(dest, missing, [k \in 1..Len(missing) |-> FALSE], Len(missing))

\* The documents of fuzzMultidoc in the test file, one per agent; alg has no
\* part in it.
InitRef ==
  /\ alg = "reference"
  /\ docs = [d \in Replicas |-> newDocRef]
  /\ err = "none"
  /\ ops = <<>>
  /\ fdoc = newDocRef
  /\ expected = <<>>
  /\ scenario = "reference"
  /\ pc = "run"

\* localInsert(doc, doc.agent, pos, content) on the document of agent d
LocalInsertRef(d, pos) ==
  /\ scenario = "reference"
  /\ err = "none"
  /\ TotalInserts < MaxRefItems
  /\ \E r \in {localInsertRef(docs[d], d, pos, ContentOf(d, VGet(docs[d].version, d) + 1))} :
        /\ docs' = [docs EXCEPT ![d] = r.doc]
        /\ err' = r.err
  /\ UNCHANGED <<alg, fuzzVars>>

\* mergeInto(docs[dest], docs[src])
MergeIntoRef(dest, src) ==
  /\ scenario = "reference"
  /\ err = "none"
  /\ dest # src
  /\ \E r \in {mergeIntoRef(docs[dest], docs[src])} :
        /\ docs' = [docs EXCEPT ![dest] = r.doc]
        /\ err' = r.err
  /\ UNCHANGED <<alg, fuzzVars>>

NextRef ==
  \/ \E d \in Replicas : \E pos \in 0..Len(docs[d].content) : LocalInsertRef(d, pos)
  \/ \E dest \in Replicas, src \in Replicas : MergeIntoRef(dest, src)

SpecRef == InitRef /\ [][NextRef]_vars

\* ------------------------------------------------------------ properties
\* The ids of the items of a document, in order.
Ids(doc) == [k \in DOMAIN doc.content |-> doc.content[k].id]

\* The fuzzer has integrated every op.
FuzzDone == NumIntegrated = Len(ops)

\* mergeInto(a, b) for the documents of agents a and b.
MergedInto(a, b) == mergeInto(alg, docs[a], docs[b])

\* r1 is the outcome of mergeInto(a, b) and r2 that of the mergeInto(b, a) after
\* it: neither call throws, and the two documents then show the same content.
BothEqual(r1, r2) ==
  /\ r1.err = "none"
  /\ r2.err = "none"
  /\ getArray(r1.doc) = getArray(r2.doc)

MergeBackEqual(r1, b) == BothEqual(r1, mergeInto(alg, docs[b], r1.doc))

RoundTripEqual(a, b) == MergeBackEqual(MergedInto(a, b), b)

\* Each of the two documents holds an item the other has not seen.
Diverged(a, b) ==
  /\ \E k \in DOMAIN docs[a].content : ~isInVersion(docs[a].content[k].id, docs[b].version)
  /\ \E k \in DOMAIN docs[b].content : ~isInVersion(docs[b].content[k].id, docs[a].version)

\* C1 as stated: under yjsMod every causally valid integration order of any
\* causally closed item set (unique ids, no gaps, anchors in the set) ends with
\* the same content.  Violated: free item sets have orders that end differently.
C1_AnySetConfluent ==
  (scenario = "free" /\ alg = "yjsMod" /\ FuzzDone) => getArray(fdoc) = expected

\* C1 amended: under yjsMod, for the item set made by any run of local inserts
\* and merges of the replicas, every causally valid integration order on a fresh
\* document integrates without error and ends with the same content.
C1_RunSetConfluent ==
  (scenario = "generated" /\ alg = "yjsMod") =>
     /\ err = "none"
     /\ FuzzDone => getArray(fdoc) = expected

\* A fuzzer run on the items of a replica run has ended: at least three items,
\* two of them root-anchored first items of different agents (so there are
\* several integration orders).
C1_Witness ==
  /\ scenario = "generated" /\ alg = "yjsMod" /\ pc = "done"
  /\ Len(ops) >= 3
  /\ \E j, k \in DOMAIN ops :
       /\ ops[j].id.agent # ops[k].id.agent
       /\ ops[j].id.seq = 0 /\ ops[k].id.seq = 0
       /\ ops[j].originLeft = null /\ ops[k].originLeft = null
       /\ ops[j].originRight = null /\ ops[k].originRight = null

\* C2: under yjsMod, for any two replicas built by local inserts and merges,
\* mergeInto(a, b) followed by mergeInto(b, a) leaves getArray(a) = getArray(b).
C2_RoundTrip ==
  (scenario = "replicas" /\ alg = "yjsMod" /\ err = "none") =>
     \A a \in Replicas, b \in Replicas : a # b => RoundTripEqual(a, b)

\* Two replicas that each hold items the other has not seen, one of them with
\* items of a third agent merged earlier.
C2_Witness ==
  /\ alg = "yjsMod" /\ err = "none"
  /\ \E a \in Replicas, b \in Replicas :
       /\ a # b
       /\ Diverged(a, b)
       /\ Len(docs[a].content) >= 2
       /\ \E k \in DOMAIN docs[a].content : docs[a].content[k].id.agent \notin {a, b}
       /\ RoundTripEqual(a, b)

\* C3: under automerge, two documents reached by local inserts and merges that
\* have equal version vectors have the same items in the same order.
C3_EqualVersionEqualContent ==
  (scenario = "replicas" /\ alg = "automerge") =>
     \A a \in Replicas, b \in Replicas :
        docs[a].version = docs[b].version => docs[a].content = docs[b].content

\* Two replicas with equal versions that hold items of all three agents.
C3_Witness ==
  /\ alg = "automerge" /\ err = "none"
  /\ \E a \in Replicas, b \in Replicas :
       /\ a # b
       /\ docs[a].version = docs[b].version
       /\ DOMAIN docs[a].version = Replicas
       /\ docs[a].content = docs[b].content

\* C4: under sync9, for any two replicas built by Sync9 local inserts and merges,
\* mergeInto(a, b) followed by mergeInto(b, a) leaves getArray(a) = getArray(b),
\* also when items have been split into a placeholder and a content half.
C4_RoundTripSync9 ==
  (scenario = "replicas" /\ alg = "sync9" /\ err = "none") =>
     \A a \in Replicas, b \in Replicas : a # b => RoundTripEqual(a, b)

\* Two diverged replicas, one of them holding a placeholder, whose round trip
\* ends with equal content.
C4_Witness ==
  /\ alg = "sync9" /\ err = "none"
  /\ \E a \in Replicas, b \in Replicas :
       /\ a # b
       /\ Diverged(a, b)
       /\ \E k \in DOMAIN docs[a].content : docs[a].content[k].content = absent
       /\ RoundTripEqual(a, b)

\* C5 as stated: under classic Yjs every causally valid integration order of any
\* causally closed item set with both anchors ends with the same content.
\* Violated: free item sets have orders that end differently.
C5_AnySetConfluentYjs ==
  (scenario = "free" /\ alg = "yjs" /\ FuzzDone) => getArray(fdoc) = expected

\* C5 amended: under classic Yjs, for the item set made by any run of local
\* inserts and merges of the replicas, every causally valid integration order on
\* a fresh document integrates without error and ends with the same content.
C5_RunSetConfluentYjs ==
  (scenario = "generated" /\ alg = "yjs") =>
     /\ err = "none"
     /\ FuzzDone => getArray(fdoc) = expected

\* As C1_Witness, under classic Yjs, with an item that has both anchors.
C5_Witness ==
  /\ scenario = "generated" /\ alg = "yjs" /\ pc = "done"
  /\ Len(ops) >= 3
  /\ \E k \in DOMAIN ops : ops[k].originLeft # null /\ ops[k].originRight # null
  /\ \E j, k \in DOMAIN ops :
       /\ ops[j].id.agent # ops[k].id.agent
       /\ ops[j].id.seq = 0 /\ ops[k].id.seq = 0
       /\ ops[j].originLeft = null /\ ops[k].originLeft = null
       /\ ops[j].originRight = null /\ ops[k].originRight = null

\* r1 is the outcome of mergeInto(a, src): it did not throw, nothing of src is
\* missing from its document, and mergeInto(a, src) again changes nothing.
SecondMergeNoOp(r1, src) ==
  /\ r1.err = "none"
  /\ Missing(src.content, r1.doc.version) = << >>
  /\ mergeInto(alg, r1.doc, src) = Ok(r1.doc)

\* C6: mergeInto is idempotent: for any documents a and b the replicas reach
\* (local inserts, local deletes, merges), mergeInto(a, b) does not throw, and
\* a second mergeInto(a, b) right after it finds nothing missing and leaves
\* a's content, version, length and maxSeq as the first call left them.
C6_MergeIdempotent ==
  scenario = "replicas" =>
    \A a \in Replicas, b \in Replicas : SecondMergeNoOp(MergedInto(a, b), docs[b])

\* The first mergeInto(a, b) integrates at least two items, one of them deleted,
\* into a document that already has items of its own.
C6_Witness ==
  /\ err = "none"
  /\ \E a \in Replicas, b \in Replicas :
       /\ a # b
       /\ Len(docs[a].content) >= 1
       /\ Len(Missing(docs[b].content, docs[a].version)) >= 2
       /\ \E k \in DOMAIN docs[b].content :
            /\ docs[b].content[k].isDeleted
            /\ ~isInVersion(docs[b].content[k].id, docs[a].version)
       /\ Len(MergedInto(a, b).doc.content) > Len(docs[a].content)
       /\ SecondMergeNoOp(MergedInto(a, b), docs[b])

\* The ids of two forward runs of n items, A's run then B's run, each in the
\* order it was typed.
ForwardRunIds(n) ==
  [k \in 1..(2 * n) |-> IF k <= n THEN Id("A", k - 1) ELSE Id("B", k - n - 1)]

\* The ids of two backward runs of n items, A's run then B's run, each with
\* its last typed item first.
BackwardRunIds(n) ==
  [k \in 1..(2 * n) |-> IF k <= n THEN Id("A", n - k) ELSE Id("B", 2 * n - k)]

\* C7: forward runs do not interleave: for two concurrent forward runs of n
\* items of agents A and B, under yjsMod, yjs and automerge no integration
\* order the fuzzer can take throws, and every one of them ends with A's run in
\* order followed by B's run in order.
C7_ForwardRunsContiguous ==
  (scenario = "interleavingForward" /\ alg \in {"yjsMod", "yjs", "automerge"}) =>
     /\ err = "none"
     /\ FuzzDone => /\ Ids(fdoc) = ForwardRunIds(Len(ops) \div 2)
                    /\ getArray(fdoc) = RunsExpected(Len(ops) \div 2)

\* The fuzzer has integrated two forward runs of three items under automerge
\* and its final comparison has passed.
C7_Witness ==
  /\ scenario = "interleavingForward" /\ alg = "automerge" /\ pc = "done"
  /\ Len(ops) = 6
  /\ getArray(fdoc) = <<"a", "a", "a", "b", "b", "b">>

\* C8: backward runs do not interleave under yjsMod: for two concurrent
\* backward runs of n items of agents A and B, no integration order the fuzzer
\* can take throws, and every one of them ends with A's run contiguous followed
\* by B's run contiguous.
C8_BackwardRunsContiguous ==
  (scenario = "interleavingBackward" /\ alg = "yjsMod") =>
     /\ err = "none"
     /\ FuzzDone => /\ Ids(fdoc) = BackwardRunIds(Len(ops) \div 2)
                    /\ getArray(fdoc) = RunsExpected(Len(ops) \div 2)

\* The fuzzer has integrated two backward runs of three items under yjsMod and
\* its final comparison has passed.
C8_Witness ==
  /\ scenario = "interleavingBackward" /\ alg = "yjsMod" /\ pc = "done"
  /\ Len(ops) = 6
  /\ Ids(fdoc) = << Id("A", 2), Id("A", 1), Id("A", 0), Id("B", 2), Id("B", 1), Id("B", 0) >>

\* C9: with tails under yjsMod: for the centre, left tail and right tail of
\* agents A and B, no integration order the fuzzer can take throws, and every
\* one of them ends with [a0, a, a1, b0, b, b1].
C9_WithTails ==
  (scenario = "withTails" /\ alg = "yjsMod") =>
     /\ err = "none"
     /\ FuzzDone => getArray(fdoc) = <<"a0", "a", "a1", "b0", "b", "b1">>

\* The fuzzer has integrated the six items of withTails under yjsMod and its
\* final comparison has passed.
C9_Witness ==
  /\ scenario = "withTails" /\ alg = "yjsMod" /\ pc = "done"
  /\ Len(fdoc.content) = 6
  /\ fdoc.content[1].id = Id("A", 1)

\* C10: local vs concurrent under yjsMod: for root/end-anchored a, b, c of
\* agents A, B, C and d of agent D between a and c, no integration order the
\* fuzzer can take throws, and every one of them ends with [a, d, b, c].
C10_LocalVsConcurrent ==
  (scenario = "localVsConcurrent" /\ alg = "yjsMod") =>
     /\ err = "none"
     /\ FuzzDone => getArray(fdoc) = <<"a", "d", "b", "c">>

\* The fuzzer has integrated the four items of localVsConcurrent under yjsMod
\* and its final comparison has passed.
C10_Witness ==
  /\ scenario = "localVsConcurrent" /\ alg = "yjsMod" /\ pc = "done"
  /\ Len(fdoc.content) = 4
  /\ fdoc.content[2].id = Id("D", 0)

\* C11: concurrent root-anchored items are ordered by agent: for one item per
\* agent of any set of agents, each with id seq 0, originLeft = root,
\* originRight = end and the same Automerge seq, under each of yjsMod, yjs,
\* automerge and sync9 no integration order throws and every one of them ends
\* with the items in ascending agent order.
C11_RootsByAgent ==
  scenario = "concurrentRoots" =>
     /\ err = "none"
     /\ FuzzDone => /\ getArray(fdoc) = expected
                    /\ \A j, k \in DOMAIN fdoc.content :
                         j < k => AgentRank(fdoc.content[j].id.agent)
                                    < AgentRank(fdoc.content[k].id.agent)

\* The fuzzer has integrated the root items of four agents, handed to it with
\* the last agent first, and its final comparison has passed.
C11_Witness ==
  /\ scenario = "concurrentRoots" /\ pc = "done"
  /\ Len(ops) = 4 /\ ops[1].id.agent = "D" /\ ops[4].id.agent = "A"
  /\ Ids(fdoc) = << Id("A", 0), Id("B", 0), Id("C", 0), Id("D", 0) >>

\* s with x inserted at index pos (0-based), as expectedContent.splice(pos, 0, x).
InsertAt(s, pos, x) == SubSeq(s, 1, pos) \o <<x>> \o SubSeq(s, pos + 1, Len(s))

\* r is the outcome of a local insert of x at pos into doc: it returned
\* normally and the visible sequence is the one before with x spliced in at pos.
InsertSplices(r, doc, pos, x) ==
  /\ r.err = "none"
  /\ getArray(r.doc) = InsertAt(getArray(doc), pos, x)

\* C12: local insert acts as a list splice on the visible sequence: under
\* yjsMod, yjs and automerge, on every document the replicas reach (inserts,
\* deletes, merges), for any agent and any 0 <= pos <= doc.length,
\* localInsert(doc, agent, pos, x) returns normally and makes getArray(doc) the
\* previous getArray(doc) with x inserted at index pos.
C12_LocalInsertSplices ==
  (scenario = "replicas" /\ err = "none" /\ alg \in {"yjsMod", "yjs", "automerge"}) =>
     \A d \in Replicas, agent \in Replicas :
        \A pos \in 0..docs[d].length :
           InsertSplices(localInsert(alg, docs[d], agent, pos, "x"), docs[d], pos, "x")

\* C13: Sync9 local insert acts as a list splice on the visible sequence: on
\* every document the replicas reach under sync9 (Sync9 local inserts, local
\* deletes, merges), for any agent and any 0 <= pos <= doc.length,
\* localInsertSync9(doc, agent, pos, x) returns normally and makes
\* getArray(doc) the previous getArray(doc) with x inserted at index pos.
C13_Sync9InsertSplices ==
  (scenario = "replicas" /\ err = "none" /\ alg = "sync9") =>
     \A d \in Replicas, agent \in Replicas :
        \A pos \in 0..docs[d].length :
           InsertSplices(localInsertSync9(docs[d], agent, pos, "x"), docs[d], pos, "x")

\* s without its element at index pos (0-based).
RemoveAt(s, pos) == SubSeq(s, 1, pos) \o SubSeq(s, pos + 2, Len(s))

\* The index (1-based) in doc.content of the item that holds the pos-th visible
\* element, 0 when there is none.
VisibleIndex(doc, pos) ==
  LET hits == {k \in DOMAIN doc.content :
                 /\ Visible(doc.content[k])
                 /\ Cardinality({j \in 1..(k - 1) : Visible(doc.content[j])}) = pos}
  IN IF hits = {} THEN 0 ELSE CHOOSE k \in hits : TRUE

\* r is the outcome of localDelete(doc, pos): it returned normally, marked
\* exactly the item of the pos-th visible element, removed that element from the
\* visible sequence, took 1 off length and changed nothing else.
DeletesExactly(r, doc, pos) ==
  /\ r.err = "none"
  /\ VisibleIndex(doc, pos) # 0
  /\ r.doc.content = [doc.content EXCEPT ![VisibleIndex(doc, pos)].isDeleted = TRUE]
  /\ getArray(r.doc) = RemoveAt(getArray(doc), pos)
  /\ r.doc.length = doc.length - 1
  /\ r.doc.version = doc.version
  /\ r.doc.maxSeq = doc.maxSeq

\* C14: for every document the replicas reach and every 0 <= pos < doc.length,
\* localDelete(doc, pos) returns normally, sets isDeleted on exactly the item
\* holding the pos-th visible element, removes exactly that element from
\* getArray(doc), decrements doc.length by exactly 1, and leaves the item
\* sequence, every other field, version and maxSeq unchanged.
C14_LocalDeleteExact ==
  (scenario = "replicas" /\ err = "none") =>
     \A d \in Replicas :
        \A pos \in 0..(docs[d].length - 1) :
           DeletesExactly(localDelete(docs[d], d, pos), docs[d], pos)

\* The last seq a document has seen of an agent, -1 for an agent it has never seen.
LastSeen(doc, agent) ==
  IF agent \in DOMAIN doc.version THEN doc.version[agent] ELSE -1

\* The items some replica holds, each under every id of a replica's agent with
\* a seq up to the number of items there can be.
ItemsUnderAnyId ==
  {[i EXCEPT !.id = Id(a, s)] : i \in AllItems, a \in Replicas, s \in 0..MaxItems}

\* C15: for every algorithm, integrate(doc, item) with item.id.seq different
\* from the last seq the document has seen of the item's agent (absent read as
\* -1) plus 1 - an item already in the document, or one that skips ahead of a
\* missing seq - fails with 'Operations out of order' and leaves content,
\* version, length and maxSeq unchanged.
C15_OutOfOrderRejected ==
  (scenario = "replicas" /\ err = "none") =>
     \A d \in Replicas :
        \A item \in ItemsUnderAnyId :
           item.id.seq # LastSeen(docs[d], item.id.agent) + 1 =>
              integrate(alg, docs[d], item, -1)
                 = [doc |-> docs[d], err |-> "Operations out of order"]

\* A document holding an item merged from another agent is handed that item
\* again, and the second item of an agent it has never seen; both
\* are rejected.
C15_Witness ==
  /\ scenario = "replicas" /\ err = "none"
  /\ \E d \in Replicas, e \in Replicas :
       /\ d # e
       /\ \E k \in DOMAIN docs[d].content :
            /\ docs[d].content[k].id.agent # d
            /\ integrate(alg, docs[d], docs[d].content[k], -1).err = "Operations out of order"
       /\ \E k \in DOMAIN docs[e].content :
            /\ docs[e].content[k].id.seq = 1
            /\ docs[e].content[k].id.agent \notin DOMAIN docs[d].version
            /\ integrate(alg, docs[d], docs[e].content[k], -1)
                 = [doc |-> docs[d], err |-> "Operations out of order"]

\* The content-bearing items of src that are marked deleted and that dest has
\* not observed.
DeletedUnseen(dest, src) ==
  {k \in DOMAIN docs[src].content :
     /\ docs[src].content[k].isDeleted
     /\ docs[src].content[k].content # absent
     /\ ~isInVersion(docs[src].content[k].id, docs[dest].version)}

\* No replica but src holds the item: it was src's localDelete that marked it.
HeldOnlyBy(src, item) ==
  \A e \in Replicas \ {src} :
     \A j \in DOMAIN docs[e].content : docs[e].content[j].id # item.id

\* The number of items in a list that are not deleted.
RECURSIVE CountLive(_)
CountLive(s) ==
  IF s = <<>> THEN 0
  ELSE (IF Head(s).isDeleted THEN 0 ELSE 1) + CountLive(Tail(s))

\* r is the outcome of mergeInto(dest, src) and item an item of src: the merge
\* returned normally and dest shows the item's element and counts it.
ArrivesVisible(r, dest, src, item) ==
  /\ r.err = "none"
  /\ \E j \in DOMAIN r.doc.content :
       r.doc.content[j].id = item.id /\ Visible(r.doc.content[j])
  /\ \E j \in DOMAIN getArray(r.doc) : getArray(r.doc)[j] = item.content
  /\ r.doc.length = docs[dest].length + Len(Missing(docs[src].content, docs[dest].version))

\* r is the outcome of mergeInto(dest, src) and item a deleted item of src: the
\* merge returned normally, and dest holds the item marked deleted, does not
\* show its element and does not count it in length.
ArrivesDeleted(r, dest, src, item) ==
  /\ r.err = "none"
  /\ \E j \in DOMAIN r.doc.content :
       /\ r.doc.content[j].id = item.id
       /\ r.doc.content[j].content = item.content
       /\ r.doc.content[j].isDeleted
  /\ \A j \in DOMAIN getArray(r.doc) : getArray(r.doc)[j] # item.content
  /\ r.doc.length =
       docs[dest].length + CountLive(Missing(docs[src].content, docs[dest].version))

C17_LengthCoherent ==
  (scenario = "replicas" /\ err = "none") =>
     \A d \in Replicas : docs[d].length = Len(getArray(docs[d]))

\* Every item (A, n) of the document is covered by its version (version[A] >= n)
\* and has every item (A, k), k in 0..n, with it in the document.
NoGap(doc) ==
  \A k \in DOMAIN doc.content :
     /\ LastSeen(doc, doc.content[k].id.agent) >= doc.content[k].id.seq
     /\ \A n \in 0..doc.content[k].id.seq :
          \E j \in DOMAIN doc.content : doc.content[j].id = Id(doc.content[k].id.agent, n)

\* r is the outcome of integrate(doc, item): when it returned normally, the
\* version entry of the item's agent is the item's seq, the item before it of
\* the same agent is there, and the document has no gap.
VersionIsSeq(r, item) ==
  r.err = "none" =>
     /\ LastSeen(r.doc, item.id.agent) = item.id.seq
     /\ NoGap(r.doc)

\* C18: version / no-gap invariant: in every state the replicas reach by
\* successful local inserts, local deletes and merges (any algorithm), every
\* item (A, n) of a document has version[A] >= n and every (A, k), k in 0..n,
\* with it in the document; and right after integrating an item (A, n) that can
\* be inserted now, version[A] = n.
C18_VersionNoGap ==
  (scenario = "replicas" /\ err = "none") =>
     \A d \in Replicas :
        /\ NoGap(docs[d])
        /\ \A item \in AllItems :
             canInsertNow(item, docs[d]) =>
                VersionIsSeq(integrate(alg, docs[d], item, -1), item)

\* A document that has seen two agents is handed the second item of an agent
\* other than its own, whose first item it holds:
\* integrate returns normally and the version entry is 1.
C18_Witness ==
  /\ scenario = "replicas" /\ err = "none"
  /\ \E d \in Replicas :
       /\ Cardinality(DOMAIN docs[d].version) >= 2
       /\ \E item \in AllItems :
            /\ item.id.seq = 1
            /\ item.id.agent # d
            /\ canInsertNow(item, docs[d])
            /\ integrate(alg, docs[d], item, -1).err = "none"
            /\ LastSeen(integrate(alg, docs[d], item, -1).doc, item.id.agent) = 1
            /\ NoGap(integrate(alg, docs[d], item, -1).doc)

\* An id is that of some item of the document.
HasId(doc, id) == \E j \in DOMAIN doc.content : doc.content[j].id = id

\* Every originLeft that is not the root and every originRight that is not the
\* end of the document is the id of an item of the same document.
AnchorsPresent(doc) ==
  \A k \in DOMAIN doc.content :
     /\ doc.content[k].originLeft # null => HasId(doc, doc.content[k].originLeft)
     /\ doc.content[k].originRight # null => HasId(doc, doc.content[k].originRight)

\* r is the outcome of an integrate: when it returned normally, the anchors of
\* every item of the document are present.
AnchorsPresentAfter(r) == r.err = "none" => AnchorsPresent(r.doc)

\* C19: anchor presence: in every document the replicas reach by local inserts,
\* local deletes and merges (any algorithm), every item's originLeft that is not
\* root and every originRight that is not end-of-document is the id of an item
\* of the same document; and so it stays when an item that can be inserted now
\* is integrated.
C19_AnchorsPresent ==
  (scenario = "replicas" /\ err = "none") =>
     \A d \in Replicas :
        /\ AnchorsPresent(docs[d])
        /\ \A item \in AllItems :
             canInsertNow(item, docs[d]) =>
                AnchorsPresentAfter(integrate(alg, docs[d], item, -1))

\* A document holds an item of another agent that has an originLeft and an
\* originRight, both the ids of items of the document.
C19_Witness ==
  /\ scenario = "replicas" /\ err = "none"
  /\ \E d \in Replicas :
       /\ \E k \in DOMAIN docs[d].content :
            /\ docs[d].content[k].id.agent # d
            /\ docs[d].content[k].originLeft # null
            /\ docs[d].content[k].originRight # null
            /\ HasId(docs[d], docs[d].content[k].originLeft)
            /\ HasId(docs[d], docs[d].content[k].originRight)
       /\ AnchorsPresent(docs[d])

\* The items of a list with the isDeleted flag left out of the comparison.
IgnoringDeleted(s) == [k \in DOMAIN s |-> [s[k] EXCEPT !.isDeleted = FALSE]]

\* s is t with some elements left out: the elements of s are in t, in the order
\* they have in s.
RECURSIVE IsSubSeq(_, _)
IsSubSeq(s, t) ==
  IF s = <<>> THEN TRUE
  ELSE IF t = <<>> THEN FALSE
  ELSE IF Head(s) = Head(t) THEN IsSubSeq(Tail(s), Tail(t))
  ELSE IsSubSeq(s, Tail(t))

\* Every item of the document before the step is in the document after it,
\* with the same fields but for isDeleted, and in the same relative order.
ItemsStable(before, after) ==
  IsSubSeq(IgnoringDeleted(before.content), IgnoringDeleted(after.content))

\* C20: stability of integrated items: no local insert, merge (integrate) or
\* local delete step of the replicas removes an item from a document's content
\* or changes the relative order of two items already in it, and isDeleted is
\* the only field of an item already in a document that a step changes.
C20_ItemsStable ==
  [][\A d \in Replicas : ItemsStable(docs[d], docs'[d])]_vars

\* A document holds a deleted item between or beside two further items, one of
\* them of another agent: inserts, a merge and a delete have acted on it.
C20_Witness ==
  /\ scenario = "replicas" /\ err = "none"
  /\ \E d \in Replicas :
       /\ Len(docs[d].content) >= 3
       /\ \E k \in DOMAIN docs[d].content : docs[d].content[k].isDeleted
       /\ \E k \in DOMAIN docs[d].content : docs[d].content[k].id.agent # d

\* The number of content-bearing items of a list that have this id.
RECURSIVE CountId(_, _)
CountId(s, id) ==
  IF s = <<>> THEN 0
  ELSE (IF Head(s).id = id /\ Head(s).content # absent THEN 1 ELSE 0) + CountId(Tail(s), id)

\* The number of content-bearing items of a list.
RECURSIVE CountContent(_)
CountContent(s) ==
  IF s = <<>> THEN 0
  ELSE (IF Head(s).content # absent THEN 1 ELSE 0) + CountContent(Tail(s))

\* The larger of two numbers.
Larger(x, y) == IF x >= y THEN x ELSE y

\* r is the outcome of mergeInto(dest, src): it returned normally; every
\* content-bearing item of src that dest had not observed is in r.doc once, as
\* src holds it; the items dest had are in r.doc as before and no
\* content-bearing item has come on top of the missing ones; every version
\* entry is the larger of dest's and src's.
TransfersMissing(r, dest, src) ==
  /\ r.err = "none"
  /\ \A k \in DOMAIN src.content :
       (src.content[k].content # absent /\ ~isInVersion(src.content[k].id, dest.version)) =>
          /\ CountId(r.doc.content, src.content[k].id) = 1
          /\ \E j \in DOMAIN r.doc.content : r.doc.content[j] = src.content[k]
  /\ \A k \in DOMAIN dest.content :
       dest.content[k].content # absent =>
          CountId(r.doc.content, dest.content[k].id) = CountId(dest.content, dest.content[k].id)
  /\ ItemsStable(dest, r.doc)
  /\ CountContent(r.doc.content)
       = CountContent(dest.content) + Len(Missing(src.content, dest.version))
  /\ \A a \in Replicas :
       LastSeen(r.doc, a) = Larger(LastSeen(dest, a), LastSeen(src, a))

\* C21: mergeInto transfers exactly the missing items: for every two documents
\* the replicas reach, mergeInto(dest, src) returns with every content-bearing
\* item of src whose id was not in dest.version integrated into dest exactly
\* once, the items dest had observed not integrated again, and every
\* dest.version[A] the maximum of its previous value and src.version[A].
C21_MergeTransfersMissing ==
  (scenario = "replicas" /\ err = "none") =>
     \A dest \in Replicas, src \in Replicas :
        TransfersMissing(MergedInto(dest, src), docs[dest], docs[src])

\* dest holds an item and src holds two items of one agent that dest has not
\* seen, the later one standing before the earlier one in src.content (a second
\* pass is needed); the merge transfers the two.
C21_Witness ==
  /\ scenario = "replicas" /\ err = "none"
  /\ \E dest \in Replicas, src \in Replicas :
       /\ dest # src
       /\ Len(docs[dest].content) >= 1
       /\ Len(Missing(docs[src].content, docs[dest].version)) = 2
       /\ Missing(docs[src].content, docs[dest].version)[1].id.seq
            > Missing(docs[src].content, docs[dest].version)[2].id.seq
       /\ Missing(docs[src].content, docs[dest].version)[1].id.agent
            = Missing(docs[src].content, docs[dest].version)[2].id.agent
       /\ TransfersMissing(MergedInto(dest, src), docs[dest], docs[src])

\* The passes the while loop of mergeInto makes from here on, when every one of
\* them returns normally and integrates at least one item; -1 when a pass
\* throws or integrates nothing.
RECURSIVE PassCount(_, _, _, _, _)

\* p is the outcome of the next pass.
PassCountAfter(algorithm, missing, remaining, p) ==
  IF p.err # "none" \/ p.merged < 1 THEN -1
  ELSE IF PassCount(algorithm, p.doc, missing, p.taken, remaining - p.merged) = -1 THEN -1
  ELSE 1 + PassCount(algorithm, p.doc, missing, p.taken, remaining - p.merged)

PassCount(algorithm, dest, missing, taken, remaining) ==
  IF ~(remaining > 0) THEN 0
  ELSE PassCountAfter(algorithm, missing, remaining,
                      MergePass(algorithm, dest, missing, taken, 0, 0))

\* The passes of mergeInto(dest, src).
PassesOfMerge(dest, src) ==
  PassCount(alg, dest, Missing(src.content, dest.version),
            [k \in 1..Len(Missing(src.content, dest.version)) |-> FALSE],
            Len(Missing(src.content, dest.version)))

\* C22: mergeInto always makes progress: for every dest and src the replicas
\* reach by local inserts, local deletes and merges (any one algorithm), every
\* pass of mergeInto(dest, src) integrates at least one item that can be
\* inserted now, so there are at most as many passes as missing items and the
\* call returns without an assertion failure, 'Operations out of order' or
\* 'Could not find item'.
C22_MergeProgress ==
  (scenario = "replicas" /\ err = "none") =>
     \A dest \in Replicas, src \in Replicas :
        /\ PassesOfMerge(docs[dest], docs[src]) >= 0
        /\ PassesOfMerge(docs[dest], docs[src])
             <= Len(Missing(docs[src].content, docs[dest].version))
        /\ MergedInto(dest, src).err \notin
             {"AssertionError", "Operations out of order", "Could not find item"}

\* A merge of three missing items that takes more than one pass, each pass
\* integrating at least one item.
C22_Witness ==
  /\ scenario = "replicas" /\ err = "none"
  /\ \E dest \in Replicas, src \in Replicas :
       /\ Len(Missing(docs[src].content, docs[dest].version)) = 3
       /\ PassesOfMerge(docs[dest], docs[src]) >= 2
       /\ MergedInto(dest, src).err = "none"

\* The documents of the current scenario and the items that may be handed to them.
CurrentDocs == IF scenario = "replicas" THEN {docs[d] : d \in Replicas} ELSE {fdoc}
CurrentItems == IF scenario = "replicas" THEN AllItems ELSE {ops[k] : k \in DOMAIN ops}
ReadyItems(doc) == {i \in CurrentItems : canInsertNow(i, doc)}

\* The index of the parent of an item and the index the Automerge scan ends at.
ParentIdx(doc, item) == findItem(doc, item.originLeft, -2)
AutomergeDest(doc, item) ==
  AutomergeScan(doc, item, ParentIdx(doc, item), ParentIdx(doc, item) + 1, FALSE, -1)

\* The scan of the item passes an item whose parent is right of the item's parent.
SkipsChild(doc, item, parent, dest) ==
  /\ dest >= 0
  /\ \E j \in (parent + 1)..(dest - 1) : findItem(doc, At(doc, j).originLeft, -2) > parent

\* C23: under Automerge, with items made by local inserts and handed on by merges
\* or integrated in any causally valid order, no local insert and no merge raises
\* an assertion failure, and integrating any causally ready item into any document
\* reached never fails assert(lostConflict): an item with oparent > parent is only
\* met after a conflict was lost.
C23_SkipAssertHolds ==
  /\ scenario = "replicas" => err # "AssertionError"
  /\ \A doc \in CurrentDocs : \A item \in ReadyItems(doc) :
        /\ ParentIdx(doc, item) # NotFound
        /\ AutomergeDest(doc, item) # AssertFailed

\* C23 witness: a causally ready item whose scan passes an item with
\* oparent > parent and ends without a failed assertion.
C23_Witness ==
  \E doc \in CurrentDocs : \E item \in ReadyItems(doc) :
     /\ AutomergeDest(doc, item) # AssertFailed
     /\ SkipsChild(doc, item, ParentIdx(doc, item), AutomergeDest(doc, item))

\* The index the scan without the shortcut ends at.
AutomergeDestFull(doc, item) ==
  AutomergeScanFull(doc, item, ParentIdx(doc, item), ParentIdx(doc, item) + 1, FALSE, -1)

\* The shortcut ends the scan of the item: it stops at an item of smaller seq.
ShortcutFires(doc, item, dest) ==
  /\ dest >= 0
  /\ dest < Len(doc.content)
  /\ item.seq > At(doc, dest).seq

\* C24: under Automerge, for every document reached and every causally ready
\* item, the scan with the shortcut `newItem.seq > o.seq => break` ends at the
\* same index as the scan that sends every item through the full case split
\* (and the latter fails no assertion).
C24_ShortcutSameIndex ==
  \A doc \in CurrentDocs : \A item \in ReadyItems(doc) :
     /\ AutomergeDestFull(doc, item) >= 0
     /\ AutomergeDest(doc, item) = AutomergeDestFull(doc, item)

\* C24 witness: a causally ready item whose scan first loses a conflict, passes
\* on, and is then ended by the shortcut at an item of smaller seq, at the index
\* the full case split ends at.
C24_Witness ==
  \E doc \in CurrentDocs : \E item \in ReadyItems(doc) :
     /\ ShortcutFires(doc, item, AutomergeDest(doc, item))
     /\ AutomergeDest(doc, item) > ParentIdx(doc, item) + 1
     /\ AutomergeDest(doc, item) = AutomergeDestFull(doc, item)

\* The item at index i goes before the item at index j in the order of siblings:
\* larger seq first, and of equal seqs the smaller agent first.
SiblingBefore(a, b) ==
  \/ a.seq > b.seq
  \/ a.seq = b.seq /\ AgentLt(a.id.agent, b.id.agent)

SiblingsOrdered(doc) ==
  \A i \in DOMAIN doc.content : \A j \in DOMAIN doc.content :
     (i < j /\ doc.content[i].originLeft = doc.content[j].originLeft)
        => SiblingBefore(doc.content[i], doc.content[j])

\* C25: under Automerge, in every document reached by local inserts and merges
\* (and by integrating the items of a run in any causally valid order), of two
\* items with the same originLeft the one with the larger seq comes earlier in
\* content, and of two with the same seq the one with the smaller agent.
C25_SiblingsOrdered == \A doc \in CurrentDocs : SiblingsOrdered(doc)

\* C25 witness: a document with two siblings of different seqs and two siblings
\* of the same seq from different agents, all in order.
C25_Witness ==
  \E doc \in CurrentDocs :
     /\ SiblingsOrdered(doc)
     /\ \E i \in DOMAIN doc.content : \E j \in DOMAIN doc.content :
           /\ i < j
           /\ doc.content[i].originLeft = doc.content[j].originLeft
           /\ doc.content[i].seq > doc.content[j].seq
     /\ \E i \in DOMAIN doc.content : \E j \in DOMAIN doc.content :
           /\ i < j
           /\ doc.content[i].originLeft = doc.content[j].originLeft
           /\ doc.content[i].seq = doc.content[j].seq

\* The highest seq of the items of a document, 0 when it has none.
MaxSeqOf(doc) ==
  IF doc.content = <<>> THEN 0
  ELSE CHOOSE m \in {doc.content[k].seq : k \in DOMAIN doc.content} :
          \A k \in DOMAIN doc.content : doc.content[k].seq <= m

\* What localInsert at pos by agent d adds to the document: its seq is above
\* that of every item the document had.
InsertSeqAbove(doc, r, id) ==
  r.err = "none" =>
     \E n \in DOMAIN r.doc.content :
        /\ r.doc.content[n].id = id
        /\ \A k \in DOMAIN doc.content : r.doc.content[n].seq > doc.content[k].seq

\* C26: under Automerge, in every document reached by local inserts and merges,
\* maxSeq is the highest seq of the items of content (0 when there is none), and
\* the item a local insert adds at any position has a seq above that of every
\* item the document had.
C26_MaxSeqIsHighest ==
  /\ \A doc \in CurrentDocs : doc.maxSeq = MaxSeqOf(doc)
  /\ scenario = "replicas" =>
       \A d \in Replicas : \A pos \in 0..docs[d].length :
          InsertSeqAbove(docs[d], localInsert(alg, docs[d], d, pos, "x"),
                         Id(d, VGet(docs[d].version, d) + 1))

\* C26 witness: a document whose highest seq, 2 or more, is that of an item of
\* another agent (brought by a merge), with maxSeq equal to it.
C26_Witness ==
  /\ scenario = "replicas"
  /\ \E d \in Replicas :
       /\ docs[d].maxSeq >= 2
       /\ docs[d].maxSeq = MaxSeqOf(docs[d])
       /\ \E k \in DOMAIN docs[d].content :
            /\ docs[d].content[k].seq = docs[d].maxSeq
            /\ docs[d].content[k].id.agent # d

\* The hints integrate may be given for a document: none, or any index.
Hints(doc) == {-1} \cup (0..Len(doc.content))

\* The case of the split: the item is anchored before its parent (originLeft
\* not null, insertAfter false) and the item found for originLeft has content.
SplitCase(doc, item, p) ==
  /\ item.originLeft # null
  /\ ~item.insertAfter
  /\ p >= 0
  /\ At(doc, p).content # absent

\* r is the outcome of the split of the parent at index p by the item: the items
\* before p, a copy of the parent without content, the item, the parent, the
\* items after p; length one more exactly when the item is visible; the visible
\* sequence that of the content before with the item spliced in at p.
SplitOutcome(r, doc, item, p) ==
  /\ r.err = "none"
  /\ r.doc.content =
       SubSeq(doc.content, 1, p)
         \o << [At(doc, p) EXCEPT !.content = absent], item, At(doc, p) >>
         \o SubSeq(doc.content, p + 2, Len(doc.content))
  /\ r.doc.length = doc.length + (IF item.content # absent /\ ~item.isDeleted THEN 1 ELSE 0)
  /\ getArray(r.doc) = getArray([doc EXCEPT !.content = InsertAt(doc.content, p, item)])

\* C27: under sync9, for every document the replicas reach (inserts, deletes,
\* merges), every causally ready item with originLeft not null and insertAfter
\* false, and every hint: when the item found for originLeft has content,
\* integrate puts a copy of it without content at its index, the new item right
\* after the copy and right before the parent itself, whatever follows (no
\* scan), and length grows by one exactly when the new item has content and is
\* not deleted; the copy adds nothing to getArray.
C27_Sync9Split ==
  (scenario = "replicas" /\ err = "none" /\ alg = "sync9") =>
     \A d \in Replicas : \A item \in ReadyItems(docs[d]) : \A h \in Hints(docs[d]) :
        LET p == findItem2(docs[d], item.originLeft, item.insertAfter, h - 1)
        IN (p # NotFound /\ SplitCase(docs[d], item, p)) =>
              SplitOutcome(integrateSync9(docs[d], item, h), docs[d], item, p)

\* The item splits its parent in the document, with no hint.
SplitsIn(doc, item) ==
  /\ SplitCase(doc, item, findItem2(doc, item.originLeft, item.insertAfter, -2))
  /\ SplitOutcome(integrateSync9(doc, item, -1), doc, item,
                  findItem2(doc, item.originLeft, item.insertAfter, -2))

\* C27 witness: a document with two causally ready items that each split a
\* parent of it, one deleted (length stays) and one not (length grows).
C27_Witness ==
  /\ scenario = "replicas" /\ err = "none" /\ alg = "sync9"
  /\ \E d \in Replicas :
       /\ \E item \in ReadyItems(docs[d]) : item.isDeleted /\ SplitsIn(docs[d], item)
       /\ \E item \in ReadyItems(docs[d]) : ~item.isDeleted /\ SplitsIn(docs[d], item)

\* C28: in the reference implementation of the test file, no local insert and
\* no merge of the replicas ends in Error('Unexpected conflict'): the scan
\* never meets an item with oleft < left while a conflict is open.
C28_NoUnexpectedConflict ==
  scenario = "reference" => err # "Unexpected conflict"

\* The index of the right anchor of an item in a document: the length for null.
RightIdx(doc, item) ==
  IF item.originRight = null THEN Len(doc.content) ELSE findItem(doc, item.originRight, -1)

\* Every item the scan of the new item examines with oright = right has oleft = left.
RightEqualGivesLeftEqual(doc, item) ==
  \A e \in YjsMod3Examined(doc, item, ParentIdx(doc, item), RightIdx(doc, item),
                           ParentIdx(doc, item) + 1, -1) :
     e.oright = RightIdx(doc, item) => e.oleft = ParentIdx(doc, item)

\* C29: under yjsMod, for every document the replicas reach and every causally
\* ready item, every item the scan examines whose right anchor index equals that
\* of the new item (oright == right) has its left anchor index equal to that of
\* the new item (oleft == left).
C29_RightEqualGivesLeftEqual ==
  scenario = "replicas" =>
     \A d \in Replicas : \A item \in ReadyItems(docs[d]) :
        RightEqualGivesLeftEqual(docs[d], item)

\* integrate gives the same outcome for the item with the hint as without one.
HintFree(algorithm, doc, item, h) ==
  integrate(algorithm, doc, item, h) = integrate(algorithm, doc, item, -1)

\* r is the outcome of a local insert by the agent into doc: the item it added,
\* integrated into doc without a hint, gives the same outcome.
LocalInsertHintFree(algorithm, doc, agent, r) ==
  r.err = "none" =>
     \E n \in DOMAIN r.doc.content :
        /\ r.doc.content[n].id = Id(agent, VGet(doc.version, agent) + 1)
        /\ r.doc.content[n].content # absent
        /\ integrate(algorithm, doc, r.doc.content[n], -1) = r

\* C30: for every algorithm, every document the replicas reach (inserts,
\* deletes, merges), every causally ready item and every hint, integrate with
\* the hint gives the same document as integrate without a hint; and a local
\* insert gives the same document as integrating its item without a hint.
C30_HintChangesNothing ==
  (scenario = "replicas" /\ err = "none") =>
     \A d \in Replicas :
        /\ \A item \in ReadyItems(docs[d]) : \A h \in Hints(docs[d]) :
              HintFree(alg, docs[d], item, h)
        /\ \A pos \in 0..docs[d].length :
              LocalInsertHintFree(alg, docs[d], d, LocalInsertOf(alg, docs[d], d, pos, "x"))

\* The item has the seq the document expects next from its agent, and an anchor
\* that is not the root or the end and is not the id of an item of the document.
NextSeqAnchorMissing(doc, item) ==
  /\ item.id.seq = VGet(doc.version, item.id.agent) + 1
  /\ \/ item.originLeft # null /\ ~HasId(doc, item.originLeft)
     \/ item.originRight # null /\ ~HasId(doc, item.originRight)

\* r is the outcome of integrate on doc: when it ended in 'Could not find item',
\* the document is as before the call.
NotFoundLeavesDoc(r, doc) == r.err = "Could not find item" => r.doc = doc

\* C31: for every algorithm, every document the replicas reach and every item
\* with the expected next seq whose originLeft or originRight is not the root or
\* the end and is not in content: when integrate fails with 'Could not find
\* item', content, version, length and maxSeq are as before the call.
C31_NotFoundLeavesDoc ==
  (scenario = "replicas" /\ err = "none") =>
     \A d \in Replicas : \A item \in AllItems :
        NextSeqAnchorMissing(docs[d], item) =>
           NotFoundLeavesDoc(integrate(alg, docs[d], item, -1), docs[d])

\* C32: localDelete is local to one replica: a step localDelete(docs[d], d, pos)
\* leaves the document of every other replica as it was (its items and their
\* isDeleted flags, and with them getArray, and its length), whatever was merged
\* between them before.
C32_LocalDeleteIsLocal ==
  [][\A d \in Replicas : \A pos \in 0..(docs[d].length - 1) :
        LocalDelete(d, pos) => \A e \in Replicas \ {d} : docs'[e] = docs[e]]_vars

=============================================================================
